---- MODULE Spec2Model ----
(***************************************************************************)
(* Model of the advisor package of soar (src/advisor/rules.go): the rule   *)
(* catalog HeuristicRules, the ignore filter IsIgnoreRule and the report   *)
(* pipeline FormatSuggest / formatJSON.                                    *)
(*                                                                         *)
(* Go strings that the code inspects character by character (rule codes,   *)
(* severities, ignore patterns) are sequences of one-character strings.    *)
(* Strings the code only copies or tests for emptiness (Summary, Content,  *)
(* Case, sql) are TLA+ strings.  A Go map is a function whose DOMAIN is    *)
(* the key set; the order of a `range` over a map is a nondeterministic    *)
(* choice of a permutation of its keys.                                    *)
(***************************************************************************)
EXTENDS Integers, Sequences, FiniteSets, TLC

VARIABLES
    HeuristicRules,        \* var HeuristicRules map[string]Rule
    IgnoreRules,           \* common.Config.IgnoreRules
    ReportType,            \* common.Config.ReportType
    ExplainSQLReportType,  \* common.Config.ExplainSQLReportType
    sql, currentDB, format, suggests,   \* arguments of FormatSuggest
    item,                  \* argument of IsIgnoreRule
    call,                  \* the operation that returned last, or None
    ret,                   \* FormatSuggest: the returned map
    str,                   \* FormatSuggest: the returned string, as its pieces
    buf,                   \* FormatSuggest: local buf when the switch is left
    score,                 \* FormatSuggest: local score when the switch is left
    js,                    \* formatJSON: the JSONSuggest document it marshals
    ignored,               \* IsIgnoreRule: the returned bool
    BlackList,             \* common.BlackList
    in,                    \* InBlackList: the returned bool
    pc,                    \* where each goroutine stands
    options,               \* argument of NewQuery4Audit (with sql)
    audit,                 \* NewQuery4Audit: the returned *Query4Audit, q
    err,                   \* NewQuery4Audit: the returned error
    trace                  \* NewQuery4Audit: its calls to the parsers and the log

vars == <<HeuristicRules, IgnoreRules, ReportType, ExplainSQLReportType,
          sql, currentDB, format, suggests, item, call, ret, str, buf, score,
          js, ignored, BlackList, in, pc, options, audit, err, trace>>

----------------------------------------------------------------------------
(* Bounds of the model *)

\* largest number of findings in one finding set passed to FormatSuggest
MaxFindings == 2
\* largest number of finding sets passed to FormatSuggest
MaxSets == 2
\* largest number of entries of IgnoreRules
MaxIgnore == 1
\* largest number of entries of BlackList
MaxBlack == 2
\* largest length of the sql handed to InBlackList
MaxSQLLen == 2
\* number of goroutines that call into the package
NumProcs == 2
\* largest number of options handed to NewQuery4Audit
MaxOptions == 2
\* largest number of findings of the score specification
MaxScored == 3

----------------------------------------------------------------------------
(* Go strings package, on sequences of characters *)

\* byte values of the characters that occur in codes, severities and patterns
Ord ==
    ("*" :> 42) @@ ("+" :> 43) @@ ("-" :> 45) @@ ("." :> 46) @@
    ("0" :> 48) @@ ("1" :> 49) @@ ("2" :> 50) @@ ("3" :> 51) @@ ("4" :> 52) @@
    ("5" :> 53) @@ ("6" :> 54) @@ ("7" :> 55) @@ ("8" :> 56) @@ ("9" :> 57) @@
    ("A" :> 65) @@ ("B" :> 66) @@ ("C" :> 67) @@ ("D" :> 68) @@ ("E" :> 69) @@
    ("F" :> 70) @@ ("G" :> 71) @@ ("H" :> 72) @@ ("I" :> 73) @@ ("J" :> 74) @@
    ("K" :> 75) @@ ("L" :> 76) @@ ("M" :> 77) @@ ("N" :> 78) @@ ("O" :> 79) @@
    ("P" :> 80) @@ ("Q" :> 81) @@ ("R" :> 82) @@ ("S" :> 83) @@ ("T" :> 84) @@
    ("U" :> 85) @@ ("V" :> 86) @@ ("W" :> 87) @@ ("X" :> 88) @@ ("Y" :> 89) @@
    ("Z" :> 90)

\* strings.HasPrefix
HasPrefix(s, prefix) ==
    /\ Len(prefix) <= Len(s)
    /\ SubSeq(s, 1, Len(prefix)) = prefix

\* strings.TrimLeft(s, cutset) for a one-character cutset
RECURSIVE TrimLeft(_, _)
TrimLeft(s, c) ==
    IF Len(s) > 0 /\ s[1] = c THEN TrimLeft(Tail(s), c) ELSE s

\* strings.TrimRight(s, cutset) for a one-character cutset
RECURSIVE TrimRight(_, _)
TrimRight(s, c) ==
    IF Len(s) > 0 /\ s[Len(s)] = c THEN TrimRight(SubSeq(s, 1, Len(s) - 1), c) ELSE s

\* strings.Trim(s, cutset): leading and trailing characters of cutset removed
Trim(s, c) == TrimRight(TrimLeft(s, c), c)

\* the value of a decimal digit
DigitVal ==
    ("0" :> 0) @@ ("1" :> 1) @@ ("2" :> 2) @@ ("3" :> 3) @@ ("4" :> 4) @@
    ("5" :> 5) @@ ("6" :> 6) @@ ("7" :> 7) @@ ("8" :> 8) @@ ("9" :> 9)

RECURSIVE DecimalVal(_)
DecimalVal(s) ==
    IF Len(s) = 0 THEN 0
    ELSE 10 * DecimalVal(SubSeq(s, 1, Len(s) - 1)) + DigitVal[s[Len(s)]]

\* strconv.Atoi: an optional sign followed by one or more decimal digits;
\* on a syntax error the value is 0 and err is non-nil
Atoi(s) ==
    LET signed == Len(s) > 0 /\ s[1] \in {"+", "-"}
        digits == IF signed THEN Tail(s) ELSE s
        ok     == Len(digits) > 0 /\ \A i \in 1..Len(digits) : digits[i] \in DOMAIN DigitVal
    IN  IF ~ok THEN [val |-> 0, err |-> TRUE]
        ELSE [val |-> IF signed /\ s[1] = "-" THEN 0 - DecimalVal(digits)
                      ELSE DecimalVal(digits),
              err |-> FALSE]

\* the order of Go strings: bytewise lexicographic
RECURSIVE StrLess(_, _)
StrLess(a, b) ==
    IF Len(b) = 0 THEN FALSE
    ELSE IF Len(a) = 0 THEN TRUE
    ELSE IF a[1] # b[1] THEN Ord[a[1]] < Ord[b[1]]
    ELSE StrLess(Tail(a), Tail(b))

\* sort.Strings applied to a slice holding the (distinct) strings of S
RECURSIVE SortStrings(_)
SortStrings(S) ==
    IF S = {} THEN <<>>
    ELSE LET m == CHOOSE x \in S : \A y \in S \ {x} : StrLess(x, y)
         IN  <<m>> \o SortStrings(S \ {m})

\* the permutations of a key set: the orders a `range` over a map can take
RangeOrders(S) ==
    {p \in [1..Cardinality(S) -> S] : \A i, j \in DOMAIN p : i # j => p[i] # p[j]}

----------------------------------------------------------------------------
(* Rule codes *)

OK     == <<"O", "K">>
ALI002 == <<"A", "L", "I", ".", "0", "0", "2">>
CLA015 == <<"C", "L", "A", ".", "0", "1", "5">>
COL018 == <<"C", "O", "L", ".", "0", "1", "8">>
SEC003 == <<"S", "E", "C", ".", "0", "0", "3">>
ERR000 == <<"E", "R", "R", ".", "0", "0", "0">>
ERR001 == <<"E", "R", "R", ".", "0", "0", "1">>
EXP000 == <<"E", "X", "P", ".", "0", "0", "0">>
EXP001 == <<"E", "X", "P", ".", "0", "0", "1">>
IDX001 == <<"I", "D", "X", ".", "0", "0", "1">>
IDX002 == <<"I", "D", "X", ".", "0", "0", "2">>
PRO001 == <<"P", "R", "O", ".", "0", "0", "1">>
TRA001 == <<"T", "R", "A", ".", "0", "0", "1">>

\* the category prefixes FormatSuggest and formatJSON dispatch on
ERR == <<"E", "R", "R">>
EXP == <<"E", "X", "P">>
IDX == <<"I", "D", "X">>
PRO == <<"P", "R", "O">>
TRA == <<"T", "R", "A">>

\* severities
L0 == <<"L", "0">>
L2 == <<"L", "2">>
L4 == <<"L", "4">>
L8 == <<"L", "8">>
L9 == <<"L", "9">>
\* a severity that does not parse
LX == <<"L", "X">>

----------------------------------------------------------------------------
(* type Rule; Position and Func are not read by the code modelled here *)

MkRule(i, sev, summary, content, case) ==
    [Item |-> i, Severity |-> sev, Summary |-> summary, Content |-> content, Case |-> case]

\* the zero value of Rule, which a Go map yields for a missing key
ZeroRule == MkRule(<<>>, <<>>, "", "", "")

\* m[k] of a Go map
Get(m, k) == IF k \in DOMAIN m THEN m[k] ELSE ZeroRule

\* delete(m, k) for every k of ks
Delete(m, ks) == [k \in DOMAIN m \ ks |-> m[k]]

\* the composite literal of InitHeuristicRules, one row per entry: the key,
\* then Item and Severity as written in the entry; Summary, Content and Case
\* are kept as one name each (the config values that some Content is built
\* from do not change)
CatalogEntries ==
    {
      <<<<"O", "K">>, <<"O", "K">>, <<"L", "0">>,
        "OK", "OK", "OK">>,
      <<<<"A", "L", "I", ".", "0", "0", "1">>, <<"A", "L", "I", ".", "0", "0", "1">>, <<"L", "0">>,
        "ALI.001 summary", "ALI.001 content", "ALI.001 case">>,
      <<<<"A", "L", "I", ".", "0", "0", "2">>, <<"A", "L", "I", ".", "0", "0", "2">>, <<"L", "8">>,
        "ALI.002 summary", "ALI.002 content", "ALI.002 case">>,
      <<<<"A", "L", "I", ".", "0", "0", "3">>, <<"A", "L", "I", ".", "0", "0", "3">>, <<"L", "1">>,
        "ALI.003 summary", "ALI.003 content", "ALI.003 case">>,
      <<<<"A", "L", "T", ".", "0", "0", "1">>, <<"A", "L", "T", ".", "0", "0", "1">>, <<"L", "4">>,
        "ALT.001 summary", "ALT.001 content", "ALT.001 case">>,
      <<<<"A", "L", "T", ".", "0", "0", "2">>, <<"A", "L", "T", ".", "0", "0", "2">>, <<"L", "2">>,
        "ALT.002 summary", "ALT.002 content", "ALT.002 case">>,
      <<<<"A", "L", "T", ".", "0", "0", "3">>, <<"A", "L", "T", ".", "0", "0", "3">>, <<"L", "0">>,
        "ALT.003 summary", "ALT.003 content", "ALT.003 case">>,
      <<<<"A", "L", "T", ".", "0", "0", "4">>, <<"A", "L", "T", ".", "0", "0", "4">>, <<"L", "0">>,
        "ALT.004 summary", "ALT.004 content", "ALT.004 case">>,
      <<<<"A", "R", "G", ".", "0", "0", "1">>, <<"A", "R", "G", ".", "0", "0", "1">>, <<"L", "4">>,
        "ARG.001 summary", "ARG.001 content", "ARG.001 case">>,
      <<<<"A", "R", "G", ".", "0", "0", "2">>, <<"A", "R", "G", ".", "0", "0", "2">>, <<"L", "1">>,
        "ARG.002 summary", "ARG.002 content", "ARG.002 case">>,
      <<<<"A", "R", "G", ".", "0", "0", "3">>, <<"A", "R", "G", ".", "0", "0", "3">>, <<"L", "4">>,
        "ARG.003 summary", "ARG.003 content", "ARG.003 case">>,
      <<<<"A", "R", "G", ".", "0", "0", "4">>, <<"A", "R", "G", ".", "0", "0", "4">>, <<"L", "4">>,
        "ARG.004 summary", "ARG.004 content", "ARG.004 case">>,
      <<<<"A", "R", "G", ".", "0", "0", "5">>, <<"A", "R", "G", ".", "0", "0", "5">>, <<"L", "1">>,
        "ARG.005 summary", "ARG.005 content", "ARG.005 case">>,
      <<<<"A", "R", "G", ".", "0", "0", "6">>, <<"A", "R", "G", ".", "0", "0", "6">>, <<"L", "1">>,
        "ARG.006 summary", "ARG.006 content", "ARG.006 case">>,
      <<<<"A", "R", "G", ".", "0", "0", "7">>, <<"A", "R", "G", ".", "0", "0", "7">>, <<"L", "3">>,
        "ARG.007 summary", "ARG.007 content", "ARG.007 case">>,
      <<<<"A", "R", "G", ".", "0", "0", "8">>, <<"A", "R", "G", ".", "0", "0", "8">>, <<"L", "1">>,
        "ARG.008 summary", "ARG.008 content", "ARG.008 case">>,
      <<<<"A", "R", "G", ".", "0", "0", "9">>, <<"A", "R", "G", ".", "0", "0", "9">>, <<"L", "1">>,
        "ARG.009 summary", "ARG.009 content", "ARG.009 case">>,
      <<<<"A", "R", "G", ".", "0", "1", "0">>, <<"A", "R", "G", ".", "0", "1", "0">>, <<"L", "1">>,
        "ARG.010 summary", "ARG.010 content", "ARG.010 case">>,
      <<<<"A", "R", "G", ".", "0", "1", "1">>, <<"A", "R", "G", ".", "0", "1", "1">>, <<"L", "3">>,
        "ARG.011 summary", "ARG.011 content", "ARG.011 case">>,
      <<<<"A", "R", "G", ".", "0", "1", "2">>, <<"A", "R", "G", ".", "0", "1", "2">>, <<"L", "2">>,
        "ARG.012 summary", "ARG.012 content", "ARG.012 case">>,
      <<<<"A", "R", "G", ".", "0", "1", "3">>, <<"A", "R", "G", ".", "0", "1", "3">>, <<"L", "0">>,
        "ARG.013 summary", "ARG.013 content", "ARG.013 case">>,
      <<<<"A", "R", "G", ".", "0", "1", "4">>, <<"A", "R", "G", ".", "0", "1", "4">>, <<"L", "4">>,
        "ARG.014 summary", "ARG.014 content", "ARG.014 case">>,
      <<<<"C", "L", "A", ".", "0", "0", "1">>, <<"C", "L", "A", ".", "0", "0", "1">>, <<"L", "4">>,
        "CLA.001 summary", "CLA.001 content", "CLA.001 case">>,
      <<<<"C", "L", "A", ".", "0", "0", "2">>, <<"C", "L", "A", ".", "0", "0", "2">>, <<"L", "3">>,
        "CLA.002 summary", "CLA.002 content", "CLA.002 case">>,
      <<<<"C", "L", "A", ".", "0", "0", "3">>, <<"C", "L", "A", ".", "0", "0", "3">>, <<"L", "2">>,
        "CLA.003 summary", "CLA.003 content", "CLA.003 case">>,
      <<<<"C", "L", "A", ".", "0", "0", "4">>, <<"C", "L", "A", ".", "0", "0", "4">>, <<"L", "2">>,
        "CLA.004 summary", "CLA.004 content", "CLA.004 case">>,
      <<<<"C", "L", "A", ".", "0", "0", "5">>, <<"C", "L", "A", ".", "0", "0", "5">>, <<"L", "2">>,
        "CLA.005 summary", "CLA.005 content", "CLA.005 case">>,
      <<<<"C", "L", "A", ".", "0", "0", "6">>, <<"C", "L", "A", ".", "0", "0", "6">>, <<"L", "4">>,
        "CLA.006 summary", "CLA.006 content", "CLA.006 case">>,
      <<<<"C", "L", "A", ".", "0", "0", "8">>, <<"C", "L", "A", ".", "0", "0", "8">>, <<"L", "2">>,
        "CLA.008 summary", "CLA.008 content", "CLA.008 case">>,
      <<<<"C", "L", "A", ".", "0", "0", "9">>, <<"C", "L", "A", ".", "0", "0", "9">>, <<"L", "2">>,
        "CLA.009 summary", "CLA.009 content", "CLA.009 case">>,
      <<<<"C", "L", "A", ".", "0", "1", "0">>, <<"C", "L", "A", ".", "0", "1", "0">>, <<"L", "2">>,
        "CLA.010 summary", "CLA.010 content", "CLA.010 case">>,
      <<<<"C", "L", "A", ".", "0", "1", "1">>, <<"C", "L", "A", ".", "0", "1", "1">>, <<"L", "1">>,
        "CLA.011 summary", "CLA.011 content", "CLA.011 case">>,
      <<<<"C", "L", "A", ".", "0", "1", "2">>, <<"C", "L", "A", ".", "0", "1", "2">>, <<"L", "2">>,
        "CLA.012 summary", "CLA.012 content", "CLA.012 case">>,
      <<<<"C", "L", "A", ".", "0", "1", "3">>, <<"C", "L", "A", ".", "0", "1", "3">>, <<"L", "3">>,
        "CLA.013 summary", "CLA.013 content", "CLA.013 case">>,
      <<<<"C", "L", "A", ".", "0", "1", "4">>, <<"C", "L", "A", ".", "0", "1", "4">>, <<"L", "2">>,
        "CLA.014 summary", "CLA.014 content", "CLA.014 case">>,
      <<<<"C", "L", "A", ".", "0", "1", "5">>, <<"C", "L", "A", ".", "0", "1", "5">>, <<"L", "4">>,
        "CLA.015 summary", "CLA.015 content", "CLA.015 case">>,
      <<<<"C", "L", "A", ".", "0", "1", "6">>, <<"C", "L", "A", ".", "0", "1", "6">>, <<"L", "2">>,
        "CLA.016 summary", "CLA.016 content", "CLA.016 case">>,
      <<<<"C", "O", "L", ".", "0", "0", "1">>, <<"C", "O", "L", ".", "0", "0", "1">>, <<"L", "1">>,
        "COL.001 summary", "COL.001 content", "COL.001 case">>,
      <<<<"C", "O", "L", ".", "0", "0", "2">>, <<"C", "O", "L", ".", "0", "0", "2">>, <<"L", "2">>,
        "COL.002 summary", "COL.002 content", "COL.002 case">>,
      <<<<"C", "O", "L", ".", "0", "0", "3">>, <<"C", "O", "L", ".", "0", "0", "3">>, <<"L", "2">>,
        "COL.003 summary", "COL.003 content", "COL.003 case">>,
      <<<<"C", "O", "L", ".", "0", "0", "4">>, <<"C", "O", "L", ".", "0", "0", "4">>, <<"L", "1">>,
        "COL.004 summary", "COL.004 content", "COL.004 case">>,
      <<<<"C", "O", "L", ".", "0", "0", "5">>, <<"C", "O", "L", ".", "0", "0", "5">>, <<"L", "1">>,
        "COL.005 summary", "COL.005 content", "COL.005 case">>,
      <<<<"C", "O", "L", ".", "0", "0", "6">>, <<"C", "O", "L", ".", "0", "0", "6">>, <<"L", "3">>,
        "COL.006 summary", "COL.006 content", "COL.006 case">>,
      <<<<"C", "O", "L", ".", "0", "0", "7">>, <<"C", "O", "L", ".", "0", "0", "7">>, <<"L", "3">>,
        "COL.007 summary", "COL.007 content", "COL.007 case">>,
      <<<<"C", "O", "L", ".", "0", "0", "8">>, <<"C", "O", "L", ".", "0", "0", "8">>, <<"L", "1">>,
        "COL.008 summary", "COL.008 content", "COL.008 case">>,
      <<<<"C", "O", "L", ".", "0", "0", "9">>, <<"C", "O", "L", ".", "0", "0", "9">>, <<"L", "2">>,
        "COL.009 summary", "COL.009 content", "COL.009 case">>,
      <<<<"C", "O", "L", ".", "0", "1", "0">>, <<"C", "O", "L", ".", "0", "1", "0">>, <<"L", "2">>,
        "COL.010 summary", "COL.010 content", "COL.010 case">>,
      <<<<"C", "O", "L", ".", "0", "1", "1">>, <<"C", "O", "L", ".", "0", "1", "1">>, <<"L", "0">>,
        "COL.011 summary", "COL.011 content", "COL.011 case">>,
      <<<<"C", "O", "L", ".", "0", "1", "2">>, <<"C", "O", "L", ".", "0", "1", "2">>, <<"L", "5">>,
        "COL.012 summary", "COL.012 content", "COL.012 case">>,
      <<<<"C", "O", "L", ".", "0", "1", "3">>, <<"C", "O", "L", ".", "0", "1", "3">>, <<"L", "4">>,
        "COL.013 summary", "COL.013 content", "COL.013 case">>,
      <<<<"C", "O", "L", ".", "0", "1", "4">>, <<"C", "O", "L", ".", "0", "1", "4">>, <<"L", "5">>,
        "COL.014 summary", "COL.014 content", "COL.014 case">>,
      <<<<"C", "O", "L", ".", "0", "1", "5">>, <<"C", "O", "L", ".", "0", "1", "5">>, <<"L", "4">>,
        "COL.015 summary", "COL.015 content", "COL.015 case">>,
      <<<<"C", "O", "L", ".", "0", "1", "6">>, <<"C", "O", "L", ".", "0", "1", "6">>, <<"L", "1">>,
        "COL.016 summary", "COL.016 content", "COL.016 case">>,
      <<<<"C", "O", "L", ".", "0", "1", "7">>, <<"C", "O", "L", ".", "0", "1", "7">>, <<"L", "2">>,
        "COL.017 summary", "COL.017 content", "COL.017 case">>,
      <<<<"C", "O", "L", ".", "0", "1", "8">>, <<"C", "O", "L", ".", "0", "1", "8">>, <<"L", "9">>,
        "COL.018 summary", "COL.018 content", "COL.018 case">>,
      <<<<"C", "O", "L", ".", "0", "1", "9">>, <<"C", "O", "L", ".", "0", "1", "9">>, <<"L", "1">>,
        "COL.019 summary", "COL.019 content", "COL.019 case">>,
      <<<<"D", "I", "S", ".", "0", "0", "1">>, <<"D", "I", "S", ".", "0", "0", "1">>, <<"L", "1">>,
        "DIS.001 summary", "DIS.001 content", "DIS.001 case">>,
      <<<<"D", "I", "S", ".", "0", "0", "2">>, <<"D", "I", "S", ".", "0", "0", "2">>, <<"L", "3">>,
        "DIS.002 summary", "DIS.002 content", "DIS.002 case">>,
      <<<<"D", "I", "S", ".", "0", "0", "3">>, <<"D", "I", "S", ".", "0", "0", "3">>, <<"L", "3">>,
        "DIS.003 summary", "DIS.003 content", "DIS.003 case">>,
      <<<<"F", "U", "N", ".", "0", "0", "1">>, <<"F", "U", "N", ".", "0", "0", "1">>, <<"L", "2">>,
        "FUN.001 summary", "FUN.001 content", "FUN.001 case">>,
      <<<<"F", "U", "N", ".", "0", "0", "2">>, <<"F", "U", "N", ".", "0", "0", "2">>, <<"L", "1">>,
        "FUN.002 summary", "FUN.002 content", "FUN.002 case">>,
      <<<<"F", "U", "N", ".", "0", "0", "3">>, <<"F", "U", "N", ".", "0", "0", "3">>, <<"L", "3">>,
        "FUN.003 summary", "FUN.003 content", "FUN.003 case">>,
      <<<<"F", "U", "N", ".", "0", "0", "4">>, <<"F", "U", "N", ".", "0", "0", "4">>, <<"L", "4">>,
        "FUN.004 summary", "FUN.004 content", "FUN.004 case">>,
      <<<<"F", "U", "N", ".", "0", "0", "5">>, <<"F", "U", "N", ".", "0", "0", "5">>, <<"L", "1">>,
        "FUN.005 summary", "FUN.005 content", "FUN.005 case">>,
      <<<<"F", "U", "N", ".", "0", "0", "6">>, <<"F", "U", "N", ".", "0", "0", "6">>, <<"L", "1">>,
        "FUN.006 summary", "FUN.006 content", "FUN.006 case">>,
      <<<<"F", "U", "N", ".", "0", "0", "7">>, <<"F", "U", "N", ".", "0", "0", "7">>, <<"L", "1">>,
        "FUN.007 summary", "FUN.007 content", "FUN.007 case">>,
      <<<<"F", "U", "N", ".", "0", "0", "8">>, <<"F", "U", "N", ".", "0", "0", "8">>, <<"L", "1">>,
        "FUN.008 summary", "FUN.008 content", "FUN.008 case">>,
      <<<<"F", "U", "N", ".", "0", "0", "9">>, <<"F", "U", "N", ".", "0", "0", "9">>, <<"L", "1">>,
        "FUN.009 summary", "FUN.009 content", "FUN.009 case">>,
      <<<<"G", "R", "P", ".", "0", "0", "1">>, <<"G", "R", "P", ".", "0", "0", "1">>, <<"L", "2">>,
        "GRP.001 summary", "GRP.001 content", "GRP.001 case">>,
      <<<<"J", "O", "I", ".", "0", "0", "1">>, <<"J", "O", "I", ".", "0", "0", "1">>, <<"L", "2">>,
        "JOI.001 summary", "JOI.001 content", "JOI.001 case">>,
      <<<<"J", "O", "I", ".", "0", "0", "2">>, <<"J", "O", "I", ".", "0", "0", "2">>, <<"L", "4">>,
        "JOI.002 summary", "JOI.002 content", "JOI.002 case">>,
      <<<<"J", "O", "I", ".", "0", "0", "3">>, <<"J", "O", "I", ".", "0", "0", "3">>, <<"L", "4">>,
        "JOI.003 summary", "JOI.003 content", "JOI.003 case">>,
      <<<<"J", "O", "I", ".", "0", "0", "4">>, <<"J", "O", "I", ".", "0", "0", "4">>, <<"L", "4">>,
        "JOI.004 summary", "JOI.004 content", "JOI.004 case">>,
      <<<<"J", "O", "I", ".", "0", "0", "5">>, <<"J", "O", "I", ".", "0", "0", "5">>, <<"L", "2">>,
        "JOI.005 summary", "JOI.005 content", "JOI.005 case">>,
      <<<<"J", "O", "I", ".", "0", "0", "6">>, <<"J", "O", "I", ".", "0", "0", "6">>, <<"L", "4">>,
        "JOI.006 summary", "JOI.006 content", "JOI.006 case">>,
      <<<<"J", "O", "I", ".", "0", "0", "7">>, <<"J", "O", "I", ".", "0", "0", "7">>, <<"L", "4">>,
        "JOI.007 summary", "JOI.007 content", "JOI.007 case">>,
      <<<<"J", "O", "I", ".", "0", "0", "8">>, <<"J", "O", "I", ".", "0", "0", "8">>, <<"L", "4">>,
        "JOI.008 summary", "JOI.008 content", "JOI.008 case">>,
      <<<<"K", "E", "Y", ".", "0", "0", "1">>, <<"K", "E", "Y", ".", "0", "0", "1">>, <<"L", "2">>,
        "KEY.001 summary", "KEY.001 content", "KEY.001 case">>,
      <<<<"K", "E", "Y", ".", "0", "0", "2">>, <<"K", "E", "Y", ".", "0", "0", "2">>, <<"L", "4">>,
        "KEY.002 summary", "KEY.002 content", "KEY.002 case">>,
      <<<<"K", "E", "Y", ".", "0", "0", "3">>, <<"K", "E", "Y", ".", "0", "0", "3">>, <<"L", "4">>,
        "KEY.003 summary", "KEY.003 content", "KEY.003 case">>,
      <<<<"K", "E", "Y", ".", "0", "0", "4">>, <<"K", "E", "Y", ".", "0", "0", "4">>, <<"L", "0">>,
        "KEY.004 summary", "KEY.004 content", "KEY.004 case">>,
      <<<<"K", "E", "Y", ".", "0", "0", "5">>, <<"K", "E", "Y", ".", "0", "0", "5">>, <<"L", "2">>,
        "KEY.005 summary", "KEY.005 content", "KEY.005 case">>,
      <<<<"K", "E", "Y", ".", "0", "0", "6">>, <<"K", "E", "Y", ".", "0", "0", "6">>, <<"L", "4">>,
        "KEY.006 summary", "KEY.006 content", "KEY.006 case">>,
      <<<<"K", "E", "Y", ".", "0", "0", "7">>, <<"K", "E", "Y", ".", "0", "0", "7">>, <<"L", "4">>,
        "KEY.007 summary", "KEY.007 content", "KEY.007 case">>,
      <<<<"K", "E", "Y", ".", "0", "0", "8">>, <<"K", "E", "Y", ".", "0", "0", "8">>, <<"L", "4">>,
        "KEY.008 summary", "KEY.008 content", "KEY.008 case">>,
      <<<<"K", "E", "Y", ".", "0", "0", "9">>, <<"K", "E", "Y", ".", "0", "0", "9">>, <<"L", "0">>,
        "KEY.009 summary", "KEY.009 content", "KEY.009 case">>,
      <<<<"K", "E", "Y", ".", "0", "1", "0">>, <<"K", "E", "Y", ".", "0", "1", "0">>, <<"L", "0">>,
        "KEY.010 summary", "KEY.010 content", "KEY.010 case">>,
      <<<<"K", "W", "R", ".", "0", "0", "1">>, <<"K", "W", "R", ".", "0", "0", "1">>, <<"L", "2">>,
        "KWR.001 summary", "KWR.001 content", "KWR.001 case">>,
      <<<<"K", "W", "R", ".", "0", "0", "2">>, <<"K", "W", "R", ".", "0", "0", "2">>, <<"L", "2">>,
        "KWR.002 summary", "KWR.002 content", "KWR.002 case">>,
      <<<<"K", "W", "R", ".", "0", "0", "3">>, <<"K", "W", "R", ".", "0", "0", "3">>, <<"L", "1">>,
        "KWR.003 summary", "KWR.003 content", "KWR.003 case">>,
      <<<<"K", "W", "R", ".", "0", "0", "4">>, <<"K", "W", "R", ".", "0", "0", "4">>, <<"L", "1">>,
        "KWR.004 summary", "KWR.004 content", "KWR.004 case">>,
      <<<<"K", "W", "R", ".", "0", "0", "5">>, <<"K", "W", "R", ".", "0", "0", "5">>, <<"L", "1">>,
        "KWR.005 summary", "KWR.005 content", "KWR.005 case">>,
      <<<<"L", "C", "K", ".", "0", "0", "1">>, <<"L", "C", "K", ".", "0", "0", "1">>, <<"L", "3">>,
        "LCK.001 summary", "LCK.001 content", "LCK.001 case">>,
      <<<<"L", "C", "K", ".", "0", "0", "2">>, <<"L", "C", "K", ".", "0", "0", "2">>, <<"L", "3">>,
        "LCK.002 summary", "LCK.002 content", "LCK.002 case">>,
      <<<<"L", "I", "T", ".", "0", "0", "1">>, <<"L", "I", "T", ".", "0", "0", "1">>, <<"L", "2">>,
        "LIT.001 summary", "LIT.001 content", "LIT.001 case">>,
      <<<<"L", "I", "T", ".", "0", "0", "2">>, <<"L", "I", "T", ".", "0", "0", "2">>, <<"L", "4">>,
        "LIT.002 summary", "LIT.002 content", "LIT.002 case">>,
      <<<<"L", "I", "T", ".", "0", "0", "3">>, <<"L", "I", "T", ".", "0", "0", "3">>, <<"L", "3">>,
        "LIT.003 summary", "LIT.003 content", "LIT.003 case">>,
      <<<<"L", "I", "T", ".", "0", "0", "4">>, <<"L", "I", "T", ".", "0", "0", "4">>, <<"L", "1">>,
        "LIT.004 summary", "LIT.004 content", "LIT.004 case">>,
      <<<<"R", "E", "S", ".", "0", "0", "1">>, <<"R", "E", "S", ".", "0", "0", "1">>, <<"L", "4">>,
        "RES.001 summary", "RES.001 content", "RES.001 case">>,
      <<<<"R", "E", "S", ".", "0", "0", "2">>, <<"R", "E", "S", ".", "0", "0", "2">>, <<"L", "4">>,
        "RES.002 summary", "RES.002 content", "RES.002 case">>,
      <<<<"R", "E", "S", ".", "0", "0", "3">>, <<"R", "E", "S", ".", "0", "0", "3">>, <<"L", "4">>,
        "RES.003 summary", "RES.003 content", "RES.003 case">>,
      <<<<"R", "E", "S", ".", "0", "0", "4">>, <<"R", "E", "S", ".", "0", "0", "4">>, <<"L", "4">>,
        "RES.004 summary", "RES.004 content", "RES.004 case">>,
      <<<<"R", "E", "S", ".", "0", "0", "5">>, <<"R", "E", "S", ".", "0", "0", "5">>, <<"L", "4">>,
        "RES.005 summary", "RES.005 content", "RES.005 case">>,
      <<<<"R", "E", "S", ".", "0", "0", "6">>, <<"R", "E", "S", ".", "0", "0", "6">>, <<"L", "4">>,
        "RES.006 summary", "RES.006 content", "RES.006 case">>,
      <<<<"R", "E", "S", ".", "0", "0", "7">>, <<"R", "E", "S", ".", "0", "0", "7">>, <<"L", "4">>,
        "RES.007 summary", "RES.007 content", "RES.007 case">>,
      <<<<"R", "E", "S", ".", "0", "0", "8">>, <<"R", "E", "S", ".", "0", "0", "8">>, <<"L", "2">>,
        "RES.008 summary", "RES.008 content", "RES.008 case">>,
      <<<<"R", "E", "S", ".", "0", "0", "9">>, <<"R", "E", "S", ".", "0", "0", "9">>, <<"L", "2">>,
        "RES.009 summary", "RES.009 content", "RES.009 case">>,
      <<<<"R", "E", "S", ".", "0", "1", "0">>, <<"R", "E", "S", ".", "0", "1", "0">>, <<"L", "2">>,
        "RES.010 summary", "RES.010 content", "RES.010 case">>,
      <<<<"R", "E", "S", ".", "0", "1", "1">>, <<"R", "E", "S", ".", "0", "1", "1">>, <<"L", "2">>,
        "RES.011 summary", "RES.011 content", "RES.011 case">>,
      <<<<"S", "E", "C", ".", "0", "0", "1">>, <<"S", "E", "C", ".", "0", "0", "1">>, <<"L", "0">>,
        "SEC.001 summary", "SEC.001 content", "SEC.001 case">>,
      <<<<"S", "E", "C", ".", "0", "0", "2">>, <<"S", "E", "C", ".", "0", "0", "2">>, <<"L", "0">>,
        "SEC.002 summary", "SEC.002 content", "SEC.002 case">>,
      <<<<"S", "E", "C", ".", "0", "0", "3">>, <<"S", "E", "C", ".", "0", "0", "3">>, <<"L", "0">>,
        "SEC.003 summary", "SEC.003 content", "SEC.003 case">>,
      <<<<"S", "E", "C", ".", "0", "0", "4">>, <<"S", "E", "C", ".", "0", "0", "4">>, <<"L", "0">>,
        "SEC.004 summary", "SEC.004 content", "SEC.004 case">>,
      <<<<"S", "T", "A", ".", "0", "0", "1">>, <<"S", "T", "A", ".", "0", "0", "1">>, <<"L", "0">>,
        "STA.001 summary", "STA.001 content", "STA.001 case">>,
      <<<<"S", "T", "A", ".", "0", "0", "2">>, <<"S", "T", "A", ".", "0", "0", "2">>, <<"L", "1">>,
        "STA.002 summary", "STA.002 content", "STA.002 case">>,
      <<<<"S", "T", "A", ".", "0", "0", "3">>, <<"S", "T", "A", ".", "0", "0", "3">>, <<"L", "1">>,
        "STA.003 summary", "STA.003 content", "STA.003 case">>,
      <<<<"S", "T", "A", ".", "0", "0", "4">>, <<"S", "T", "A", ".", "0", "0", "4">>, <<"L", "1">>,
        "STA.004 summary", "STA.004 content", "STA.004 case">>,
      <<<<"S", "U", "B", ".", "0", "0", "1">>, <<"S", "U", "B", ".", "0", "0", "1">>, <<"L", "4">>,
        "SUB.001 summary", "SUB.001 content", "SUB.001 case">>,
      <<<<"S", "U", "B", ".", "0", "0", "2">>, <<"S", "U", "B", ".", "0", "0", "2">>, <<"L", "2">>,
        "SUB.002 summary", "SUB.002 content", "SUB.002 case">>,
      <<<<"S", "U", "B", ".", "0", "0", "3">>, <<"S", "U", "B", ".", "0", "0", "3">>, <<"L", "3">>,
        "SUB.003 summary", "SUB.003 content", "SUB.003 case">>,
      <<<<"S", "U", "B", ".", "0", "0", "4">>, <<"S", "U", "B", ".", "0", "0", "4">>, <<"L", "3">>,
        "SUB.004 summary", "SUB.004 content", "SUB.004 case">>,
      <<<<"S", "U", "B", ".", "0", "0", "5">>, <<"S", "U", "B", ".", "0", "0", "5">>, <<"L", "8">>,
        "SUB.005 summary", "SUB.005 content", "SUB.005 case">>,
      <<<<"S", "U", "B", ".", "0", "0", "6">>, <<"S", "U", "B", ".", "0", "0", "6">>, <<"L", "2">>,
        "SUB.006 summary", "SUB.006 content", "SUB.006 case">>,
      <<<<"S", "U", "B", ".", "0", "0", "7">>, <<"S", "U", "B", ".", "0", "0", "7">>, <<"L", "2">>,
        "SUB.007 summary", "SUB.007 content", "SUB.007 case">>,
      <<<<"T", "B", "L", ".", "0", "0", "1">>, <<"T", "B", "L", ".", "0", "0", "1">>, <<"L", "4">>,
        "TBL.001 summary", "TBL.001 content", "TBL.001 case">>,
      <<<<"T", "B", "L", ".", "0", "0", "2">>, <<"T", "B", "L", ".", "0", "0", "2">>, <<"L", "4">>,
        "TBL.002 summary", "TBL.002 content", "TBL.002 case">>,
      <<<<"T", "B", "L", ".", "0", "0", "3">>, <<"T", "B", "L", ".", "0", "0", "3">>, <<"L", "8">>,
        "TBL.003 summary", "TBL.003 content", "TBL.003 case">>,
      <<<<"T", "B", "L", ".", "0", "0", "4">>, <<"T", "B", "L", ".", "0", "0", "4">>, <<"L", "2">>,
        "TBL.004 summary", "TBL.004 content", "TBL.004 case">>,
      <<<<"T", "B", "L", ".", "0", "0", "5">>, <<"T", "B", "L", ".", "0", "0", "5">>, <<"L", "4">>,
        "TBL.005 summary", "TBL.005 content", "TBL.005 case">>,
      <<<<"T", "B", "L", ".", "0", "0", "6">>, <<"T", "B", "L", ".", "0", "0", "6">>, <<"L", "1">>,
        "TBL.006 summary", "TBL.006 content", "TBL.006 case">>,
      <<<<"T", "B", "L", ".", "0", "0", "7">>, <<"T", "B", "L", ".", "0", "0", "7">>, <<"L", "1">>,
        "TBL.007 summary", "TBL.007 content", "TBL.007 case">>,
      <<<<"T", "B", "L", ".", "0", "0", "8">>, <<"T", "B", "L", ".", "0", "0", "8">>, <<"L", "4">>,
        "TBL.008 summary", "TBL.008 content", "TBL.008 case">>
    }

\* EntryRule with the Item of one entry copied from its neighbour
EntryRuleCopiedItem(e) ==
    MkRule(IF e[1] = COL018 THEN <<"C", "O", "L", ".", "0", "1", "7">> ELSE e[2],
           e[3], e[4], e[5], e[6])

\* the Rule value a row declares
EntryRule(e) == MkRule(e[2], e[3], e[4], e[5], e[6])

\* the map the composite literal denotes
RuleCatalog ==
    [k \in {e[1] : e \in CatalogEntries} |->
        EntryRule(CHOOSE e \in CatalogEntries : e[1] = k)]

----------------------------------------------------------------------------
(* Functions of other packages, by what they return *)

\* query.Fingerprint of percona/go-mysql
Fingerprint(q) == <<"fingerprint", q>>
\* query.Id of percona/go-mysql
Id(f) == <<"id", f>>
\* ast.Pretty
Pretty(q, fmt) == <<"pretty", q, fmt>>
\* ast.SchemaMetaInfo
SchemaMetaInfo(q, db) == <<"tables", q, db>>
\* common.MarkdownEscape
MarkdownEscape(t) == <<"escaped", t>>
\* common.Score: the rendering of the score it is handed
Score(n) == <<"score", n>>

\* the static conflict relation: <<a, b>> says that a suppresses b
ConflictList == {<<CLA015, SEC003>>}

\* MergeConflictHeuristicRules: a finding is deleted when a finding that
\* suppresses it is present
MergeConflictHeuristicRules(rules) ==
    Delete(rules, {p[2] : p \in {q \in ConflictList : q[1] \in DOMAIN rules}})

----------------------------------------------------------------------------
(* IsIgnoreRule *)

\* IsIgnoreRuleFrom that returns after the first entry
IsIgnoreRuleFirstOnly(it, rules, i) ==
    /\ i <= Len(rules)
    /\ LET ir == Trim(rules[i], "*")
       IN  HasPrefix(it, ir) /\ ir # OK /\ ir # <<>>

RECURSIVE IsIgnoreRuleFrom(_, _, _)
IsIgnoreRuleFrom(it, rules, i) ==
    IF i > Len(rules) THEN FALSE
    ELSE LET ir == Trim(rules[i], "*")
         IN  IF HasPrefix(it, ir) /\ ir # OK /\ ir # <<>> THEN TRUE
             ELSE IsIgnoreRuleFrom(it, rules, i + 1)

\* IsIgnoreRule(item), with common.Config.IgnoreRules as second argument
IsIgnoreRule(it, rules) == IsIgnoreRuleFrom(it, rules, 1)

----------------------------------------------------------------------------
(* InBlackList, with package regexp on the patterns built from literal      *)
(* characters, the anchors ^ and $ and the repetition *                     *)

\* the case folding of the flag (?i)
Fold(c) == IF c = "A" THEN "a" ELSE IF c = "B" THEN "b" ELSE c

\* regexp.Compile("(?i)" + r): the atoms of r, each with its repetition; a *
\* with nothing to repeat (the flag group is no operand) and a * after a *
\* are the errors "missing argument to repetition operator" and "invalid
\* nested repetition operator"
RECURSIVE Compile(_)
Compile(r) ==
    IF Len(r) = 0 THEN [err |-> FALSE, prog |-> <<>>]
    ELSE IF r[1] = "*" THEN [err |-> TRUE, prog |-> <<>>]
    ELSE LET star == Len(r) > 1 /\ r[2] = "*"
             rest == Compile(SubSeq(r, IF star THEN 3 ELSE 2, Len(r)))
         IN  IF rest.err THEN rest
             ELSE [err |-> FALSE,
                   prog |-> <<[atom |-> r[1], star |-> star]>> \o rest.prog]

\* the number of characters of s after position pos that fold to c
RECURSIVE Run(_, _, _)
Run(c, s, pos) ==
    IF pos < Len(s) /\ Fold(s[pos + 1]) = Fold(c) THEN 1 + Run(c, s, pos + 1) ELSE 0

\* the end of the match of prog from its atom i that starts at pos in s and
\* that a backtracking matcher finds first (* is greedy), or -1
RECURSIVE MatchEnd(_, _, _, _)
RECURSIVE StarEnd(_, _, _, _, _)
MatchEnd(prog, i, s, pos) ==
    IF i > Len(prog) THEN pos
    ELSE LET a == prog[i]
         IN  IF a.atom = "^"
             THEN IF a.star \/ pos = 0 THEN MatchEnd(prog, i + 1, s, pos) ELSE -1
             ELSE IF a.atom = "$"
             THEN IF a.star \/ pos = Len(s) THEN MatchEnd(prog, i + 1, s, pos) ELSE -1
             ELSE IF a.star THEN StarEnd(prog, i, s, pos, Run(a.atom, s, pos))
             ELSE IF pos < Len(s) /\ Fold(s[pos + 1]) = Fold(a.atom)
             THEN MatchEnd(prog, i + 1, s, pos + 1)
             ELSE -1

\* the repetition at atom i takes n characters, or fewer when the rest of
\* prog does not match behind them
StarEnd(prog, i, s, pos, n) ==
    LET end == MatchEnd(prog, i + 1, s, pos + n)
    IN  IF end # -1 THEN end
        ELSE IF n = 0 THEN -1
        ELSE StarEnd(prog, i, s, pos, n - 1)

\* re.FindString(s): the text of the leftmost match, and the empty string
\* when there is no match
RECURSIVE FindStringFrom(_, _, _)
FindStringFrom(prog, s, pos) ==
    IF pos > Len(s) THEN <<>>
    ELSE LET end == MatchEnd(prog, 1, s, pos)
         IN  IF end # -1 THEN SubSeq(s, pos + 1, end)
             ELSE FindStringFrom(prog, s, pos + 1)

FindString(prog, s) == FindStringFrom(prog, s, 0)

\* the loop of InBlackList from entry i on
RECURSIVE InBlackListFrom(_, _, _)
InBlackListFrom(q, list, i) ==
    IF i > Len(list) THEN FALSE
    ELSE LET r  == list[i]
             re == Compile(r)
         IN  IF q = r THEN TRUE
             ELSE IF ~re.err /\ FindString(re.prog, q) # <<>> THEN TRUE
             ELSE InBlackListFrom(q, list, i + 1)

\* InBlackList(sql), with common.BlackList as second argument
InBlackList(q, list) == InBlackListFrom(q, list, 1)

----------------------------------------------------------------------------
(* FormatSuggest: merge, conflict resolution, OK handling, ignore filter *)

\* the loop over suggests with the first set winning: a key that is already
\* merged is kept
RECURSIVE MergeSuggestsFirstWins(_)
MergeSuggestsFirstWins(ss) ==
    IF Len(ss) = 0 THEN [k \in {} |-> ZeroRule]
    ELSE LET front == MergeSuggestsFirstWins(SubSeq(ss, 1, Len(ss) - 1))
             s     == ss[Len(ss)]
         IN  [k \in DOMAIN front \cup DOMAIN s |->
                 IF k \in DOMAIN front THEN front[k] ELSE s[k]]

\* the loop over suggests: a later set overwrites an earlier one
RECURSIVE MergeSuggests(_)
MergeSuggests(ss) ==
    IF Len(ss) = 0 THEN [k \in {} |-> ZeroRule]
    ELSE LET front == MergeSuggests(SubSeq(ss, 1, Len(ss) - 1))
             s     == ss[Len(ss)]
         IN  [k \in DOMAIN front \cup DOMAIN s |->
                 IF k \in DOMAIN s THEN s[k] ELSE front[k]]

\* ignoreOK: the bare token OK is an entry of IgnoreRules
IgnoreOK(rules) == \E i \in 1..Len(rules) : rules[i] = OK

\* EnsureNotEmpty with a misspelt key
EnsureNotEmptyMisspelt(suggest, catalog) ==
    IF Cardinality(DOMAIN suggest) < 1 THEN (<<"0", "K">> :> Get(catalog, OK)) ELSE suggest

\* {"OK": HeuristicRules["OK"]} replaces an empty map
EnsureNotEmpty(suggest, catalog) ==
    IF Cardinality(DOMAIN suggest) < 1 THEN (OK :> Get(catalog, OK)) ELSE suggest

\* DropOK without the test of len(suggest)
DropOKOnlyIgnored(suggest, rules) ==
    IF IgnoreOK(rules) THEN Delete(suggest, {OK}) ELSE suggest

\* DropOK without the test of ignoreOK
DropOKOnlyCrowded(suggest, rules) ==
    IF Cardinality(DOMAIN suggest) > 1 THEN Delete(suggest, {OK}) ELSE suggest

\* delete(suggest, "OK") when ignoreOK || len(suggest) > 1
DropOK(suggest, rules) ==
    IF IgnoreOK(rules) \/ Cardinality(DOMAIN suggest) > 1
    THEN Delete(suggest, {OK}) ELSE suggest

\* DropIgnored that deletes only the keys that are entries of IgnoreRules
DropIgnoredLiteral(suggest, rules) ==
    Delete(suggest, {k \in DOMAIN suggest : \E i \in 1..Len(rules) : rules[i] = k})

\* the loop that deletes every key for which IsIgnoreRule holds (deleting
\* the key under the cursor of a range is safe in Go)
DropIgnored(suggest, rules) ==
    Delete(suggest, {k \in DOMAIN suggest : IsIgnoreRule(k, rules)})

\* the map suggest when FormatSuggest reaches its switch
Surviving(ss, rules, catalog) ==
    DropIgnored(
        DropOK(EnsureNotEmpty(MergeConflictHeuristicRules(MergeSuggests(ss)), catalog),
               rules),
        rules)

----------------------------------------------------------------------------
(* formatJSON *)

\* the concatenation of a sequence of sequences
RECURSIVE Concat(_)
Concat(ss) == IF Len(ss) = 0 THEN <<>> ELSE ss[1] \o Concat(Tail(ss))

\* the keys of m that start with prefix
WithPrefix(m, prefix) == {k \in DOMAIN m : HasPrefix(k, prefix)}

\* the Score loop of formatJSON over the keys in the order of the range
RECURSIVE jsonScoreLoop(_, _, _, _)
jsonScoreLoop(suggest, order, i, sc) ==
    IF i > Len(order) THEN sc
    ELSE LET it == order[i]
             l  == Atoi(TrimLeft(suggest[it].Severity, "L")).val
             s1 == sc - l * 5
             s2 == IF HasPrefix(it, ERR) /\ suggest[it].Content # "" THEN 0 ELSE s1
         IN  jsonScoreLoop(suggest, order, i + 1, s2)

\* Score of formatJSON without the clamp at 0
jsonScoreUnclamped(suggest, order) == jsonScoreLoop(suggest, order, 1, 100)

\* Score of formatJSON: the loop, then the clamp at 0
jsonScore(suggest, order) ==
    LET sc == jsonScoreLoop(suggest, order, 1, 100)
    IN  IF sc < 0 THEN 0 ELSE sc

\* SortedRules with the comparison of the sort reversed
SortedRulesDescending(suggest, ks) ==
    LET sortItem == SortStrings(ks)
    IN  [i \in 1..Len(sortItem) |-> suggest[sortItem[Len(sortItem) + 1 - i]]]

\* the rules of suggest under the keys ks, sorted by key
SortedRules(suggest, ks) ==
    LET sortItem == SortStrings(ks)
    IN  [i \in 1..Len(sortItem) |-> suggest[sortItem[i]]]

\* formatJSON that puts every finding into HeuristicRules
formatJSONHeuristicAll(q, db, suggest, order) ==
    [ID             |-> Id(Fingerprint(q)),
     Fingerprint    |-> Fingerprint(q),
     Score          |-> jsonScore(suggest, order),
     Sample         |-> q,
     Explain        |-> SortedRules(suggest, WithPrefix(suggest, EXP)),
     IndexRules     |-> SortedRules(suggest, WithPrefix(suggest, IDX)),
     HeuristicRules |-> SortedRules(suggest,
                            {k \in DOMAIN suggest :
                                ~(HasPrefix(k, ERR) /\ suggest[k].Content = "")}),
     Tables         |-> SchemaMetaInfo(q, db)]

\* formatJSON: the JSONSuggest document; order is the order of its Score loop
formatJSON(q, db, suggest, order) ==
    [ID             |-> Id(Fingerprint(q)),
     Fingerprint    |-> Fingerprint(q),
     Score          |-> jsonScore(suggest, order),
     Sample         |-> q,
     Explain        |-> SortedRules(suggest, WithPrefix(suggest, EXP)),
     IndexRules     |-> SortedRules(suggest, WithPrefix(suggest, IDX)),
     HeuristicRules |-> SortedRules(suggest,
                            {k \in DOMAIN suggest :
                                /\ ~HasPrefix(k, EXP)
                                /\ ~HasPrefix(k, IDX)
                                /\ ~(HasPrefix(k, ERR) /\ suggest[k].Content = "")}),
     Tables         |-> SchemaMetaInfo(q, db)]

----------------------------------------------------------------------------
(* FormatSuggest: the cases text, lint and default *)

\* id as FormatSuggest computes it: only for a non-empty sql
SuggestID(q) == IF q # "" THEN Id(Fingerprint(q)) ELSE ""

\* case "text"
formatText(q, suggest, order) ==
    Concat([i \in 1..Len(order) |->
        << <<"Query: ", q>>,
           <<"ID: ", SuggestID(q)>>,
           <<"Item: ", order[i]>>,
           <<"Severity: ", suggest[order[i]].Severity>>,
           <<"Summary: ", suggest[order[i]].Summary>>,
           <<"Content: ", suggest[order[i]].Content>> >>])

\* case "lint" without the test for the prefix EXP
formatLintKeepsEXP(suggest, order) ==
    Concat([i \in 1..Len(order) |->
        IF order[i] # OK
        THEN << <<"lint", order[i], suggest[order[i]].Summary>> >>
        ELSE <<>>])

\* case "lint"
formatLint(suggest, order) ==
    Concat([i \in 1..Len(order) |->
        IF order[i] # OK /\ ~HasPrefix(order[i], EXP)
        THEN << <<"lint", order[i], suggest[order[i]].Summary>> >>
        ELSE <<>>])

\* default: the dump of pretty.Sprint
formatDefault(q, suggest, order) ==
    << <<"Query: ", q>> >> \o [i \in 1..Len(order) |-> <<"pretty.Sprint", suggest[order[i]]>>]

----------------------------------------------------------------------------
(* FormatSuggest: case "markdown", "html", "explain-digest",               *)
(* "duplicate-key-checker"                                                 *)

\* the header: the query under its ID, per ExplainSQLReportType
mdHeader(q, fmt, suggest, explainType) ==
    IF q # "" /\ Cardinality(DOMAIN suggest) > 0
    THEN << <<"# Query: ", SuggestID(q)>>,
            <<"sql block",
              CASE explainType = "fingerprint" -> Fingerprint(q)
                [] explainType = "sample"      -> q
                [] OTHER                       -> Pretty(q, fmt)>> >>
    ELSE <<>>

\* sortedMySQLSuggest: the ERR.* keys whose Content is not empty
mdMySQLKeys(suggest) == {k \in WithPrefix(suggest, ERR) : suggest[k].Content # ""}

\* the MySQL block
mdMySQL(suggest) ==
    LET sorted == SortStrings(mdMySQLKeys(suggest))
    IN  (IF Len(sorted) > 0 THEN << <<"## MySQL execute failed">> >> ELSE <<>>)
        \o [i \in 1..Len(sorted) |-> <<"Content", suggest[sorted[i]].Content>>]

\* suggest after the MySQL block: ERR.* with empty Content deleted by the
\* first loop, the others by the second
mdAfterMySQL(suggest) == Delete(suggest, WithPrefix(suggest, ERR))

\* the EXP.000 block is taken when the value under EXP.000 has an Item
mdHasExp000(suggest) == Get(suggest, EXP000).Item # <<>>

\* the Explain block of suggest (the map after the MySQL block)
mdExplain(suggest) ==
    LET s2     == IF mdHasExp000(suggest) THEN Delete(suggest, {EXP000}) ELSE suggest
        sorted == SortStrings(WithPrefix(s2, EXP))
    IN  (IF mdHasExp000(suggest)
         THEN << <<"## ", suggest[EXP000].Summary>>,
                 <<"Content", suggest[EXP000].Content>>,
                 <<"Case", suggest[EXP000].Case>> >>
         ELSE <<>>)
        \o Concat([i \in 1..Len(sorted) |->
               << <<"### ", s2[sorted[i]].Summary>>,
                  <<"Content", s2[sorted[i]].Content>>,
                  <<"Case", s2[sorted[i]].Case>> >>])

mdAfterExplain(suggest) ==
    IF mdHasExp000(suggest) THEN Delete(suggest, {EXP000}) ELSE suggest

\* the Profiling and the Trace block: a title, then the Content of each
\* finding of the category; the findings are deleted
mdContentBlock(suggest, prefix, title) ==
    LET sorted == SortStrings(WithPrefix(suggest, prefix))
    IN  (IF Len(sorted) > 0 THEN << <<title>> >> ELSE <<>>)
        \o [i \in 1..Len(sorted) |-> <<"Content", suggest[sorted[i]].Content>>]

\* sortedIdxSuggest
mdIdxKeys(suggest) == SortStrings(WithPrefix(suggest, IDX))

\* the Index block
mdIndex(suggest, fmt) ==
    LET sorted == mdIdxKeys(suggest)
    IN  Concat([i \in 1..Len(sorted) |->
            << <<"## ", MarkdownEscape(suggest[sorted[i]].Summary)>>,
               <<"* **Item:** ", sorted[i]>>,
               <<"* **Severity:** ", suggest[sorted[i]].Severity>>,
               <<"* **Content:** ", MarkdownEscape(suggest[sorted[i]].Content)>> >>
            \o (IF fmt = "duplicate-key-checker"
                THEN << <<"* **create table:** ", suggest[sorted[i]].Case>>, <<"\n\n">> >>
                ELSE << <<"* **Case:** ", MarkdownEscape(suggest[sorted[i]].Case)>> >>)])

\* sortedHeuristicSuggest in descending order
mdHeuristicKeysDescending(suggest) ==
    LET sorted == SortStrings({k \in DOMAIN suggest :
                      ~HasPrefix(k, EXP) /\ ~HasPrefix(k, IDX) /\ ~HasPrefix(k, PRO)})
    IN  [i \in 1..Len(sorted) |-> sorted[Len(sorted) + 1 - i]]

\* sortedHeuristicSuggest
mdHeuristicKeys(suggest) ==
    SortStrings({k \in DOMAIN suggest :
                    ~HasPrefix(k, EXP) /\ ~HasPrefix(k, IDX) /\ ~HasPrefix(k, PRO)})

\* the Heuristic block
mdHeuristic(suggest) ==
    LET sorted == mdHeuristicKeys(suggest)
    IN  Concat([i \in 1..Len(sorted) |->
            << <<"##", suggest[sorted[i]].Summary>> >>
            \o (IF sorted[i] = OK THEN <<>>
                ELSE << <<"* **Item:** ", sorted[i]>>,
                        <<"* **Severity:** ", suggest[sorted[i]].Severity>>,
                        <<"* **Content:** ", MarkdownEscape(suggest[sorted[i]].Content)>> >>)])

\* score = score - minus*5, or score = 0 when the severity does not parse,
\* for the findings of items in their order
RECURSIVE mdScoreLoop(_, _, _, _)
mdScoreLoop(suggest, items, i, sc) ==
    IF i > Len(items) THEN sc
    ELSE LET minus == Atoi(Trim(suggest[items[i]].Severity, "L"))
         IN  mdScoreLoop(suggest, items, i + 1,
                         IF ~minus.err THEN sc - minus.val * 5 ELSE 0)

\* the markdown case as a whole: buf, score and suggest when it is left
formatMarkdown(q, fmt, suggest, explainType) ==
    LET s1 == mdAfterMySQL(suggest)
        s2 == mdAfterExplain(s1)
        s3 == Delete(s2, WithPrefix(s2, PRO))
        s4 == Delete(s3, WithPrefix(s3, TRA))
        sc == IF mdMySQLKeys(suggest) # {} THEN 0 ELSE 100
    IN  [buf     |-> mdHeader(q, fmt, suggest, explainType)
                     \o mdMySQL(suggest)
                     \o mdExplain(s1)
                     \o mdContentBlock(s2, PRO, "## Profiling")
                     \o mdContentBlock(s3, TRA, "## Trace")
                     \o mdIndex(s4, fmt)
                     \o mdHeuristic(s4),
         score   |-> mdScoreLoop(s4,
                         mdIdxKeys(s4) \o SelectSeq(mdHeuristicKeys(s4), LAMBDA k : k # OK),
                         1, sc),
         suggest |-> s4]

----------------------------------------------------------------------------
(* FormatSuggest: the switch on format and the final assembly *)

MarkdownFormats == {"markdown", "html", "explain-digest", "duplicate-key-checker"}

\* buf, score, suggest and the JSON document when the switch is left; order
\* is the order of the one range over suggest that the case depends on
formatSwitch(q, db, fmt, suggest, explainType, order) ==
    CASE fmt = "json" ->
             [buf |-> << <<"json", formatJSON(q, db, suggest, order)>> >>,
              score |-> 100, suggest |-> suggest]
      [] fmt = "text" ->
             [buf |-> formatText(q, suggest, order), score |-> 100, suggest |-> suggest]
      [] fmt = "lint" ->
             [buf |-> formatLint(suggest, order), score |-> 100, suggest |-> suggest]
      [] fmt \in MarkdownFormats ->
             formatMarkdown(q, fmt, suggest, explainType)
      [] OTHER ->
             [buf |-> formatDefault(q, suggest, order), score |-> 100, suggest |-> suggest]

\* Assemble with the score put in front of the first element
AssembleScoreFirst(b, sc, reportType) ==
    IF reportType \in {"markdown", "html"}
    THEN IF Len(b) > 1 THEN <<Score(sc)>> \o b ELSE <<>>
    ELSE b

\* the switch on ReportType that builds the returned string
Assemble(b, sc, reportType) ==
    IF reportType \in {"markdown", "html"}
    THEN IF Len(b) > 1 THEN <<b[1], Score(sc)>> \o Tail(b) ELSE <<>>
    ELSE b

----------------------------------------------------------------------------
(* NewQuery4Audit *)

\* the nil error
nil == "nil"

\* what sqlparser.Parse and ast.TiParse return as their error: the parsers
\* are collaborators, each of them accepts or rejects a statement
VitessErrors == {nil, "vitess: syntax error"}

TiErrors == {nil, "tidb: syntax error"}

\* the statement sqlparser.Parse returns with the error vErr
VitessStmt(s, vErr) == <<"sqlparser.Statement", s, vErr>>

\* the statements ast.TiParse returns with the error tiErr
TiStmtNodes(s, charset, collation, tiErr) ==
    <<"tidb.StmtNode", s, charset, collation, tiErr>>

\* charset = options[0] and collation = options[1] when they are given
Charset(opts) == IF Len(opts) > 0 THEN opts[1] ELSE ""

Collation(opts) == IF Len(opts) > 1 THEN opts[2] ELSE ""

\* NewQuery4Audit that gives up when the Vitess parser fails
ParseForAuditStopsAtVitess(s, opts, vErr, tiErr) ==
    IF vErr # nil
    THEN [q |-> <<>>, err |-> vErr, trace |-> << <<"sqlparser.Parse", s, vErr>> >>]
    ELSE [q     |-> << [Query  |-> s,
                        Stmt   |-> VitessStmt(s, vErr),
                        TiStmt |-> TiStmtNodes(s, Charset(opts), Collation(opts), tiErr)] >>,
          err   |-> tiErr,
          trace |-> << <<"sqlparser.Parse", s, vErr>>,
                       <<"ast.TiParse", s, Charset(opts), Collation(opts), tiErr>> >>]

\* NewQuery4Audit that returns the error of the Vitess parser when the TiDB
\* parser has none
ParseForAuditReportsVitess(s, opts, vErr, tiErr) ==
    [q     |-> << [Query  |-> s,
                   Stmt   |-> VitessStmt(s, vErr),
                   TiStmt |-> TiStmtNodes(s, Charset(opts), Collation(opts), tiErr)] >>,
     err   |-> IF tiErr # nil THEN tiErr ELSE vErr,
     trace |-> << <<"sqlparser.Parse", s, vErr>> >>
               \o (IF vErr # nil THEN << <<"Log.Warn", vErr, s>> >> ELSE <<>>)
               \o << <<"ast.TiParse", s, Charset(opts), Collation(opts), tiErr>> >>]

\* the body of NewQuery4Audit when the parsers return vErr and tiErr: the
\* pointer q (a sequence of one struct; the empty sequence is the nil
\* pointer), the returned error and the calls made
ParseForAudit(s, opts, vErr, tiErr) ==
    [q     |-> << [Query  |-> s,
                   Stmt   |-> VitessStmt(s, vErr),
                   TiStmt |-> TiStmtNodes(s, Charset(opts), Collation(opts), tiErr)] >>,
     err   |-> tiErr,
     trace |-> << <<"sqlparser.Parse", s, vErr>> >>
               \o (IF vErr # nil THEN << <<"Log.Warn", vErr, s>> >> ELSE <<>>)
               \o << <<"ast.TiParse", s, Charset(opts), Collation(opts), tiErr>> >>]

----------------------------------------------------------------------------
(* Inputs *)

\* findings of the heuristic rules: entries of the catalog, one for each
\* severity in use and the pair of ConflictList
HeuristicFindings == {RuleCatalog[k] : k \in {OK, ALI002, CLA015, COL018, SEC003}}

\* findings injected by the collaborators (explain, index, profiling, trace,
\* execution errors); ERR.001 is a placeholder with empty Content, IDX.002
\* carries a severity that does not parse
ExternalFindings ==
    { MkRule(ERR000, L8, "ERR.000 summary", "syntax error", ""),
      MkRule(ERR001, L2, "ERR.001 summary", "", ""),
      MkRule(EXP000, L0, "EXP.000 summary", "EXP.000 content", "EXP.000 case"),
      MkRule(EXP001, L2, "EXP.001 summary", "EXP.001 content", "EXP.001 case"),
      MkRule(IDX001, L2, "IDX.001 summary", "IDX.001 content", "IDX.001 case"),
      MkRule(IDX002, LX, "IDX.002 summary", "IDX.002 content", "IDX.002 case"),
      MkRule(PRO001, L2, "PRO.001 summary", "PRO.001 content", ""),
      MkRule(TRA001, L2, "TRA.001 summary", "TRA.001 content", "") }

\* the findings the report specification draws from
Findings == (HeuristicFindings \ {RuleCatalog[SEC003]}) \cup ExternalFindings

\* the findings the filter specification draws from; the second ERR.000
\* carries the message of another failure
FilterFindings ==
    { RuleCatalog[OK], RuleCatalog[CLA015], RuleCatalog[SEC003],
      MkRule(ERR000, L8, "ERR.000 summary", "syntax error", ""),
      MkRule(ERR000, L8, "ERR.000 summary", "execute error", "") }

\* the findings the score specification draws from: every severity in use,
\* every category, a placeholder and a severity that does not parse
ScoreFindings ==
    {r \in Findings : r.Item \in {ALI002, CLA015, COL018, ERR000, ERR001, EXP001,
                                  IDX002, PRO001}}

\* the map that holds the findings of R under their Item
AsMap(R) == [k \in {r.Item : r \in R} |-> CHOOSE r \in R : r.Item = k]

\* the finding sets of at most n findings of P with distinct codes
FindingSets(P, n) ==
    {AsMap(R) : R \in {Q \in SUBSET P :
                          /\ Cardinality(Q) <= n
                          /\ \A a, b \in Q : a.Item = b.Item => a = b}}

\* the sequences of at most n elements of S
SeqsUpTo(S, n) == UNION {[1..m -> S] : m \in 0..n}

Formats == {"json", "text", "lint", "markdown", "html", "explain-digest",
            "duplicate-key-checker", "tiup"}

SQLs == {"", "select 1"}

ExplainSQLReportTypes == {"fingerprint", "sample", "pretty"}

\* entries of IgnoreRules
IgnorePatterns ==
    { OK, <<"O">>, <<"O", "K", "*">>, <<"E", "R", "R", "*">>, <<"*", "C", "L", "A">>,
      <<"*">>, <<>>, CLA015, <<"E">> }

\* the entries of IgnoreRules the filter specification draws from
FilterPatterns == { OK, <<"O">>, <<"E", "R", "R", "*">>, CLA015 }

\* the codes IsIgnoreRule is asked about
Codes == {r.Item : r \in Findings \cup FilterFindings}

\* no operation, no document
None == "none"

\* entries of BlackList: literals, repetitions, anchors, the empty entry and
\* two entries that do not compile
BlackPatterns ==
    { <<>>, <<"a">>, <<"A", "b">>, <<"b", "*">>, <<"a", "*", "b">>, <<"^">>,
      <<"^", "b">>, <<"a", "$">>, <<"*">>, <<"a", "*", "*">> }

\* the sql handed to InBlackList, over four characters
BlackSQLs == SeqsUpTo({"a", "A", "b", "*"}, MaxSQLLen)

\* the goroutines
Procs == 1..NumProcs

\* charsets and collations handed to NewQuery4Audit
OptionValues == {"utf8", "utf8mb4", "utf8mb4_bin"}

----------------------------------------------------------------------------
(* The state machine *)

\* the results of the operations, before any has returned
NoResults ==
    /\ call = None
    /\ item = <<>>
    /\ ret = <<>>
    /\ str = <<>>
    /\ buf = <<>>
    /\ score = 100
    /\ js = None
    /\ ignored = FALSE

\* NewQuery4Audit was not called
NoParse ==
    /\ options = <<>>
    /\ audit = <<>>
    /\ err = nil
    /\ trace = <<>>

\* no blacklist, and no goroutine inside an operation
Quiet ==
    /\ BlackList = <<>>
    /\ in = FALSE
    /\ pc = [p \in Procs |-> "idle"]
    /\ NoParse

\* an operation runs alone from its call to its return
Sequential == UNCHANGED <<BlackList, in, pc, options, audit, err, trace>>

\* a change of the catalog drops the results obtained from the old one
ClearResults ==
    /\ item' = <<>>
    /\ ret' = <<>>
    /\ str' = <<>>
    /\ buf' = <<>>
    /\ score' = 100
    /\ js' = None
    /\ ignored' = FALSE

\* the report specification: every format, findings of every category,
\* nothing ignored
Init ==
    /\ HeuristicRules = RuleCatalog
    /\ IgnoreRules = <<>>
    /\ format \in Formats
    /\ ReportType \in {format, "markdown"}
    /\ sql \in SQLs
    \* ExplainSQLReportType is read only by the markdown cases and only when
    \* sql is not empty
    /\ ExplainSQLReportType \in
           (IF sql = "" \/ format \notin MarkdownFormats THEN {"pretty"}
            ELSE ExplainSQLReportTypes)
    /\ currentDB = "test"
    /\ suggests \in {<<s>> : s \in FindingSets(Findings, MaxFindings)}
    /\ NoResults
    /\ Quiet

\* the filter specification: IgnoreRules and several finding sets
InitFilter ==
    /\ HeuristicRules = RuleCatalog
    /\ IgnoreRules \in SeqsUpTo(FilterPatterns, MaxIgnore)
    /\ format \in {"json", "text", "lint", "markdown"}
    /\ ReportType = format
    /\ sql = "select 1"
    /\ ExplainSQLReportType = "pretty"
    /\ currentDB = "test"
    \* an empty finding set merges like an absent one
    /\ suggests \in SeqsUpTo({s \in FindingSets(FilterFindings, 1) : DOMAIN s # {}},
                              MaxSets)
    /\ NoResults
    /\ Quiet

\* the ignore specification: IsIgnoreRule under every IgnoreRules
InitIgnore ==
    /\ HeuristicRules = RuleCatalog
    /\ IgnoreRules \in SeqsUpTo(IgnorePatterns, MaxIgnore)
    /\ format = "json"
    /\ ReportType = "json"
    /\ sql = ""
    /\ ExplainSQLReportType = "pretty"
    /\ currentDB = "test"
    /\ suggests = <<>>
    /\ NoResults
    /\ Quiet

\* the catalog specification: the operations on the catalog under every
\* format and ReportType
InitCatalog ==
    /\ HeuristicRules = RuleCatalog
    /\ IgnoreRules = <<>>
    /\ format \in Formats
    /\ ReportType \in Formats
    /\ sql = "select 1"
    /\ ExplainSQLReportType = "pretty"
    /\ currentDB = "test"
    /\ suggests \in {<<>>, <<AsMap({RuleCatalog[CLA015]})>>}
    /\ NoResults
    /\ Quiet

\* the blacklist specification: InBlackList for every sql under every
\* BlackList; sql is a sequence of characters here
InitBlack ==
    /\ HeuristicRules = RuleCatalog
    /\ IgnoreRules = <<>>
    /\ format = "json"
    /\ ReportType = "json"
    /\ sql \in BlackSQLs
    /\ ExplainSQLReportType = "pretty"
    /\ currentDB = "test"
    /\ suggests = <<>>
    /\ NoResults
    /\ BlackList \in SeqsUpTo(BlackPatterns, MaxBlack)
    /\ in = FALSE
    /\ pc = [p \in Procs |-> "idle"]
    /\ NoParse

\* the concurrent specification: goroutines that call InitHeuristicRules,
\* ListHeuristicRules(HeuristicRules) and FormatSuggest at the same time
InitRace ==
    /\ HeuristicRules = RuleCatalog
    /\ IgnoreRules = <<>>
    /\ format \in {"json", "markdown"}
    /\ ReportType \in {"json", "markdown"}
    /\ sql = "select 1"
    /\ ExplainSQLReportType = "pretty"
    /\ currentDB = "test"
    /\ suggests \in {<<>>, <<AsMap({RuleCatalog[CLA015]})>>}
    /\ NoResults
    /\ Quiet

\* the rendering specification: every format under its own ReportType,
\* findings of every category
InitRender ==
    /\ HeuristicRules = RuleCatalog
    /\ IgnoreRules = <<>>
    /\ format \in Formats
    /\ ReportType = format
    /\ sql \in SQLs
    /\ ExplainSQLReportType = "pretty"
    /\ currentDB = "test"
    /\ suggests \in {<<s>> : s \in FindingSets(Findings, MaxFindings)}
    /\ NoResults
    /\ Quiet

\* the score specification: the json and the markdown format for finding
\* sets large enough to take the score below 0
InitScore ==
    /\ HeuristicRules = RuleCatalog
    /\ IgnoreRules = <<>>
    /\ format \in {"json", "markdown"}
    /\ ReportType = format
    /\ sql = "select 1"
    /\ ExplainSQLReportType = "pretty"
    /\ currentDB = "test"
    /\ suggests \in {<<s>> : s \in FindingSets(ScoreFindings, MaxScored)}
    /\ NoResults
    /\ Quiet

\* the parse specification: NewQuery4Audit for every sql and every options
InitParse ==
    /\ HeuristicRules = RuleCatalog
    /\ IgnoreRules = <<>>
    /\ format = "json"
    /\ ReportType = "json"
    /\ sql \in SQLs
    /\ ExplainSQLReportType = "pretty"
    /\ currentDB = "test"
    /\ suggests = <<>>
    /\ NoResults
    /\ BlackList = <<>>
    /\ in = FALSE
    /\ pc = [p \in Procs |-> "idle"]
    /\ options \in SeqsUpTo(OptionValues, MaxOptions)
    /\ audit = <<>>
    /\ err = nil
    /\ trace = <<>>

\* InitHeuristicRules that leaves an existing catalog alone
InitHeuristicRulesOnce ==
    /\ HeuristicRules' = HeuristicRules
    /\ call' = "InitHeuristicRules"
    /\ ClearResults
    /\ UNCHANGED <<IgnoreRules, ReportType, ExplainSQLReportType, sql, currentDB,
                   format, suggests>>

\* InitHeuristicRules: the catalog is assigned the composite literal
InitHeuristicRules ==
    /\ HeuristicRules' = RuleCatalog
    /\ call' = "InitHeuristicRules"
    /\ ClearResults
    /\ UNCHANGED <<IgnoreRules, ReportType, ExplainSQLReportType, sql, currentDB,
                   format, suggests>>

\* ListHeuristicRules(HeuristicRules): outside the json report the key OK
\* is deleted from the map that was passed
ListHeuristicRules ==
    /\ HeuristicRules' = IF ReportType = "json" THEN HeuristicRules
                         ELSE Delete(HeuristicRules, {OK})
    /\ call' = "ListHeuristicRules"
    /\ ClearResults
    /\ UNCHANGED <<IgnoreRules, ReportType, ExplainSQLReportType, sql, currentDB,
                   format, suggests>>

\* the orders of the range the case of format depends on; the markdown
\* cases sort every slice they build from a range
SwitchOrders(fmt, suggest) ==
    IF fmt \in MarkdownFormats THEN {SortStrings(DOMAIN suggest)}
    ELSE RangeOrders(DOMAIN suggest)

\* FormatSuggest that works on the first finding set itself when it is the
\* only one, instead of a merged copy
FormatSuggestAliased ==
    LET suggest == Surviving(suggests, IgnoreRules, HeuristicRules)
    IN  \E order \in SwitchOrders(format, suggest) :
            LET out == formatSwitch(sql, currentDB, format, suggest,
                                    ExplainSQLReportType, order)
            IN  /\ call' = "FormatSuggest"
                /\ ret' = out.suggest
                /\ buf' = out.buf
                /\ score' = out.score
                /\ js' = IF format = "json" THEN out.buf[1][2] ELSE None
                /\ str' = Assemble(out.buf, out.score, ReportType)
                /\ suggests' = IF Len(suggests) = 1 THEN <<out.suggest>> ELSE suggests
                /\ UNCHANGED <<HeuristicRules, IgnoreRules, ReportType,
                               ExplainSQLReportType, sql, currentDB, format,
                               item, ignored>>

\* FormatSuggest(sql, currentDB, format, suggests...)
FormatSuggest ==
    LET suggest == Surviving(suggests, IgnoreRules, HeuristicRules)
    IN  \E order \in SwitchOrders(format, suggest) :
            LET out == formatSwitch(sql, currentDB, format, suggest,
                                    ExplainSQLReportType, order)
            IN  /\ call' = "FormatSuggest"
                /\ ret' = out.suggest
                /\ buf' = out.buf
                /\ score' = out.score
                /\ js' = IF format = "json" THEN out.buf[1][2] ELSE None
                /\ str' = Assemble(out.buf, out.score, ReportType)
                /\ UNCHANGED <<HeuristicRules, IgnoreRules, ReportType,
                               ExplainSQLReportType, sql, currentDB, format,
                               suggests, item, ignored>>

\* IsIgnoreRule(item) for a code it
IsIgnoreRuleCall ==
    \E it \in Codes :
        /\ call' = "IsIgnoreRule"
        /\ item' = it
        /\ ignored' = IsIgnoreRule(it, IgnoreRules)
        /\ UNCHANGED <<HeuristicRules, IgnoreRules, ReportType,
                       ExplainSQLReportType, sql, currentDB, format, suggests,
                       ret, str, buf, score, js>>

\* InBlackList(sql)
InBlackListCall ==
    /\ call' = "InBlackList"
    /\ in' = InBlackList(sql, BlackList)
    /\ UNCHANGED <<HeuristicRules, IgnoreRules, ReportType, ExplainSQLReportType,
                   sql, currentDB, format, suggests, item, ret, str, buf, score,
                   js, ignored, BlackList, pc, options, audit, err, trace>>

\* NewQuery4Audit(sql, options...)
NewQuery4Audit ==
    \E vErr \in VitessErrors, tiErr \in TiErrors :
        LET out == ParseForAudit(sql, options, vErr, tiErr)
        IN  /\ call' = "NewQuery4Audit"
            /\ audit' = out.q
            /\ err' = out.err
            /\ trace' = out.trace
            /\ UNCHANGED <<HeuristicRules, IgnoreRules, ReportType,
                           ExplainSQLReportType, sql, currentDB, format, suggests,
                           item, ret, str, buf, score, js, ignored, BlackList, in,
                           pc, options>>

\* the operations that touch the catalog
CatalogOps == {"InitHeuristicRules", "ListHeuristicRules", "FormatSuggest"}

\* goroutine p calls op and runs up to its access to HeuristicRules
Enter(p, op) ==
    /\ pc[p] = "idle"
    /\ pc' = [pc EXCEPT ![p] = op]
    /\ UNCHANGED <<HeuristicRules, IgnoreRules, ReportType, ExplainSQLReportType,
                   sql, currentDB, format, suggests, item, call, ret, str, buf,
                   score, js, ignored, BlackList, in, options, audit, err, trace>>

\* goroutine p makes the access of the operation it is in and returns
Leave(p) ==
    /\ \/ pc[p] = "InitHeuristicRules" /\ InitHeuristicRules
       \/ pc[p] = "ListHeuristicRules" /\ ListHeuristicRules
       \/ pc[p] = "FormatSuggest" /\ FormatSuggest
    /\ pc' = [pc EXCEPT ![p] = "idle"]
    /\ UNCHANGED <<BlackList, in, options, audit, err, trace>>

\* goroutine p stands before a write: the assignment to the variable
\* HeuristicRules, or delete(r, "OK") on the map it was handed
Writes(p) ==
    \/ pc[p] = "InitHeuristicRules"
    \/ pc[p] = "ListHeuristicRules" /\ ReportType # "json"

\* goroutine p stands before an access: a write, the marshalling or the
\* listing of the map, or the read of HeuristicRules["OK"] that FormatSuggest
\* makes for an empty merge
Accesses(p) ==
    \/ pc[p] \in {"InitHeuristicRules", "ListHeuristicRules"}
    \/ pc[p] = "FormatSuggest"
          /\ DOMAIN MergeConflictHeuristicRules(MergeSuggests(suggests)) = {}

\* a write to the catalog and another access to it are both pending
Race == \E p, q \in Procs : p # q /\ Writes(p) /\ Accesses(q)

\* a delete on the map and another access to the same map are both pending
MapRace ==
    \E p, q \in Procs :
        /\ p # q
        /\ pc[p] = "ListHeuristicRules" /\ ReportType # "json"
        /\ Accesses(q) /\ pc[q] # "InitHeuristicRules"

\* the runtime detects the concurrent map write and stops the process
\* ("fatal error: concurrent map read and map write")
Fatal ==
    /\ MapRace
    /\ call' = "fatal"
    /\ pc' = [p \in Procs |-> "dead"]
    /\ UNCHANGED <<HeuristicRules, IgnoreRules, ReportType, ExplainSQLReportType,
                   sql, currentDB, format, suggests, item, ret, str, buf, score,
                   js, ignored, BlackList, in, options, audit, err, trace>>

Next ==
    \/ InitHeuristicRules /\ Sequential
    \/ ListHeuristicRules /\ Sequential
    \/ FormatSuggest /\ Sequential

NextIgnore == IsIgnoreRuleCall /\ Sequential

NextBlack == InBlackListCall

NextParse == NewQuery4Audit

NextRace ==
    \/ \E p \in Procs : \E op \in CatalogOps : Enter(p, op)
    \/ \E p \in Procs : Leave(p)
    \/ Fatal

Spec == Init /\ [][Next]_vars

SpecFilter == InitFilter /\ [][Next]_vars

SpecIgnore == InitIgnore /\ [][NextIgnore]_vars

SpecCatalog == InitCatalog /\ [][Next]_vars

SpecBlack == InitBlack /\ [][NextBlack]_vars

SpecRace == InitRace /\ [][NextRace]_vars

SpecRender == InitRender /\ [][Next]_vars

SpecScore == InitScore /\ [][Next]_vars

SpecParse == InitParse /\ [][NextParse]_vars

----------------------------------------------------------------------------
(* Properties *)

\* FormatSuggest has returned
Returned == call = "FormatSuggest"

\* the merged finding set, after conflict resolution
Merged == MergeConflictHeuristicRules(MergeSuggests(suggests))

\* the finding set that reaches the switch of the call that returned
Survivors == Surviving(suggests, IgnoreRules, HeuristicRules)

\* C1: the FindingSet returned by FormatSuggest either has exactly the key OK
\* or does not have the key OK
C1_OKAloneOrAbsent ==
    Returned => (DOMAIN ret = {OK} \/ OK \notin DOMAIN ret)

\* C1 witness: OK was passed together with another finding and FormatSuggest
\* returned a set without it
C1_Witness ==
    /\ Returned
    /\ OK \in DOMAIN Merged
    /\ Cardinality(DOMAIN Merged) > 1
    /\ DOMAIN ret # {}
    /\ OK \notin DOMAIN ret

\* C2 as stated: with the bare token OK in IgnoreRules and no real finding
\* in the merged set, the returned set still contains OK
C2_OKRetainedWhenAlone ==
    (Returned /\ IgnoreOK(IgnoreRules) /\ DOMAIN Merged \subseteq {OK})
        => OK \in DOMAIN ret

\* C2 amended: with the bare token OK in IgnoreRules the returned set never
\* contains OK; when the merged set has no real finding it is empty
C2_OKAlwaysDropped ==
    (Returned /\ IgnoreOK(IgnoreRules))
        => /\ OK \notin DOMAIN ret
           /\ (DOMAIN Merged \subseteq {OK} => DOMAIN ret = {})

\* C2 witness: OK is ignored, nothing real was found, and the returned set
\* is empty
C2_Witness ==
    /\ Returned
    /\ IgnoreOK(IgnoreRules)
    /\ DOMAIN Merged \subseteq {OK}
    /\ DOMAIN ret = {}

\* a severity of the form L0..L9
ValidSeverity(sev) == Len(sev) = 2 /\ sev[1] = "L" /\ sev[2] \in DOMAIN DigitVal

\* the score is 0: Score of the json document, score of the markdown cases
ScoreIsZero ==
    /\ format = "json" => js.Score = 0
    /\ format \in MarkdownFormats => score = 0

\* C3 as stated: with severities L0..L9 the score is within 0..100, as the
\* Score of the json document and as the value handed to common.Score by the
\* markdown cases
C3_ScoreInRange ==
    (Returned /\ \A k \in DOMAIN Survivors : ValidSeverity(Survivors[k].Severity))
        => /\ format = "json" => js.Score \in 0..100
           /\ (format \in MarkdownFormats /\ ReportType \in {"markdown", "html"}
                  /\ Len(buf) > 1)
                 => score \in 0..100

\* C4 as stated: an ERR.* finding with Content among the survivors makes the
\* score 0 in the json format and in the markdown cases
C4_ErrZeroesScore ==
    (Returned /\ \E k \in DOMAIN Survivors :
                     HasPrefix(k, ERR) /\ Survivors[k].Content # "")
        => ScoreIsZero

\* C5 as stated: a surviving finding whose severity is not L and a digit
\* makes the score 0 in the json format and in the markdown cases
C5_BadSeverityZeroesScore ==
    (Returned /\ \E k \in DOMAIN Survivors : ~ValidSeverity(Survivors[k].Severity))
        => ScoreIsZero

\* C6 as stated: every code of the returned set is a key of HeuristicRules
C6_ReturnedInCatalog ==
    Returned => DOMAIN ret \subseteq DOMAIN HeuristicRules

\* C6 amended: every code of the returned set is a key of one of the finding
\* sets passed in, or the sentinel OK
C6_ReturnedFromInputs ==
    Returned =>
        DOMAIN ret \subseteq UNION {DOMAIN suggests[i] : i \in 1..Len(suggests)} \cup {OK}

\* C6 witness: a code of a collaborator, which the catalog does not hold, is
\* returned
C6_Witness ==
    /\ Returned
    /\ \E k \in DOMAIN ret : k \notin DOMAIN RuleCatalog

\* the surviving ERR.* findings with empty Content
Placeholders ==
    {k \in DOMAIN Survivors : HasPrefix(k, ERR) /\ Survivors[k].Content = ""}

\* a piece of buf renders the finding k
Renders(piece, k) ==
    CASE piece[1] = "Item: "        -> piece[2] = k
      [] piece[1] = "* **Item:** "  -> piece[2] = k
      [] piece[1] = "lint"          -> piece[2] = k
      [] piece[1] = "pretty.Sprint" -> piece[2].Item = k
      [] OTHER                      -> FALSE

\* C7 as stated: an ERR.* finding with empty Content is absent from the
\* returned set, is not rendered and does not change the score
C7_PlaceholdersDropped ==
    Returned =>
        /\ DOMAIN ret \cap Placeholders = {}
        /\ \A k \in Placeholders : \A i \in 1..Len(buf) : ~Renders(buf[i], k)
        /\ format = "json" =>
              js.Score = jsonScore(Delete(Survivors, Placeholders),
                                   SortStrings(DOMAIN Survivors \ Placeholders))

\* C8 as stated: the returned set has the same codes under every format
C8_SameSetEveryFormat ==
    Returned =>
        \A f \in Formats :
            DOMAIN formatSwitch(sql, currentDB, f, Survivors, ExplainSQLReportType,
                                SortStrings(DOMAIN Survivors)).suggest
                = DOMAIN ret

\* C9 as stated: a second call of FormatSuggest with the same arguments and
\* config returns the same string
C9_Deterministic ==
    [][(call = "FormatSuggest" /\ call' = "FormatSuggest") => str' = str]_vars

\* C10 as stated: IsIgnoreRule holds exactly when some entry of IgnoreRules,
\* its trailing asterisks stripped, is non-empty, is not OK and is a prefix
\* of the code
C10_TrailingStarPrefix ==
    call = "IsIgnoreRule" =>
        (ignored <=> \E i \in 1..Len(IgnoreRules) :
                        LET ir == TrimRight(IgnoreRules[i], "*")
                        IN  ir # <<>> /\ ir # OK /\ HasPrefix(item, ir))

\* C11 as stated: under every IgnoreRules, IsIgnoreRule("OK") is false
C11_OKNeverIgnored ==
    (call = "IsIgnoreRule" /\ item = OK) => ~ignored

\* C12: no code of the set FormatSuggest returned is matched by IsIgnoreRule
\* under IgnoreRules
C12_NoIgnoredReturned ==
    Returned => \A k \in DOMAIN ret : ~IsIgnoreRule(k, IgnoreRules)

\* C12 witness: a finding that was passed in matches an entry of IgnoreRules
\* and FormatSuggest returned other findings without it
C12_Witness ==
    /\ Returned
    /\ \E k \in DOMAIN Merged : IsIgnoreRule(k, IgnoreRules) /\ k \notin DOMAIN ret
    /\ DOMAIN ret # {}

\* IgnoreRules with the entry r added in front of position p
WithEntry(rules, r, p) ==
    SubSeq(rules, 1, p - 1) \o <<r>> \o SubSeq(rules, p, Len(rules))

\* the set FormatSuggest returns for the arguments of the state under the
\* ignore list rules
ReturnedUnder(rules) ==
    LET suggest == Surviving(suggests, rules, HeuristicRules)
    IN  formatSwitch(sql, currentDB, format, suggest, ExplainSQLReportType,
                     SortStrings(DOMAIN suggest)).suggest

\* C13: with an entry added to IgnoreRules at any position, FormatSuggest
\* returns no more findings for the same sql, format and finding sets
C13_IgnoreMonotone ==
    Returned =>
        /\ ret = ReturnedUnder(IgnoreRules)
        /\ \A r \in IgnorePatterns : \A p \in 1..(Len(IgnoreRules) + 1) :
              Cardinality(DOMAIN ReturnedUnder(WithEntry(IgnoreRules, r, p)))
                  <= Cardinality(DOMAIN ret)

\* C13 witness: FormatSuggest returned findings under a non-empty IgnoreRules
\* and some added entry leaves strictly fewer
C13_Witness ==
    /\ Returned
    /\ Len(IgnoreRules) > 0
    /\ \E r \in IgnorePatterns :
          Cardinality(DOMAIN ReturnedUnder(WithEntry(IgnoreRules, r, 1)))
              < Cardinality(DOMAIN ret)

\* C15 as stated: after any sequence of calls the catalog holds the key OK
\* with Item OK, and the set that replaces an empty merge carries that rule
C15_OKInCatalog ==
    /\ OK \in DOMAIN HeuristicRules
    /\ HeuristicRules[OK].Item = OK
    /\ (Returned /\ DOMAIN Merged = {} /\ OK \in DOMAIN ret) => ret[OK] = RuleCatalog[OK]

\* C17: when InitHeuristicRules has returned, the catalog has the keys and
\* the metadata it had after the first initialization
C17_InitIdempotent ==
    call = "InitHeuristicRules" => HeuristicRules = RuleCatalog

\* C17 witness: InitHeuristicRules was called again and the catalog is the
\* one of the first initialization, OK included
C17_Witness ==
    /\ call = "InitHeuristicRules"
    /\ OK \in DOMAIN HeuristicRules
    /\ HeuristicRules = RuleCatalog

\* the upper-case letters
Letters ==
    {"A", "B", "C", "D", "E", "F", "G", "H", "I", "J", "K", "L", "M", "N", "O",
     "P", "Q", "R", "S", "T", "U", "V", "W", "X", "Y", "Z"}

\* a code of the form OK or AAA.NNN
WellFormedCode(k) ==
    \/ k = OK
    \/ /\ Len(k) = 7
       /\ \A i \in 1..3 : k[i] \in Letters
       /\ k[4] = "."
       /\ \A i \in 5..7 : k[i] \in DOMAIN DigitVal

\* C18: every entry of the catalog has its key as Item, a key of the form OK
\* or AAA.NNN and a severity L0..L9
C18_CatalogWellFormed ==
    \A k \in DOMAIN HeuristicRules :
        /\ HeuristicRules[k].Item = k
        /\ WellFormedCode(k)
        /\ ValidSeverity(HeuristicRules[k].Severity)

\* C18 witness: InitHeuristicRules has assigned the literal with all of its
\* 132 entries
C18_Witness ==
    /\ call = "InitHeuristicRules"
    /\ Cardinality(DOMAIN HeuristicRules) = 132
    /\ {OK, ALI002, CLA015, COL018, SEC003} \subseteq DOMAIN HeuristicRules

\* the rules of arr stand in strictly ascending order of their code
Ascending(arr) ==
    \A i, j \in 1..Len(arr) : i < j => StrLess(arr[i].Item, arr[j].Item)

\* C19: in the json document the arrays Explain, IndexRules and
\* HeuristicRules are each in strictly ascending order of code, under every
\* order of the range over the map
C19_JSONArraysSorted ==
    (Returned /\ format = "json") =>
        /\ Ascending(js.Explain)
        /\ Ascending(js.IndexRules)
        /\ Ascending(js.HeuristicRules)

\* C19 witness: a json document whose IndexRules array has two entries
C19_Witness ==
    /\ Returned
    /\ format = "json"
    /\ Len(js.IndexRules) >= 2

\* the positions of str that hold a rendering of the score
ScoreAt == {i \in 1..Len(str) : str[i][1] = "score"}

\* the positions of str that hold the line "# Query: id" of the header
HeaderAt == {i \in 1..Len(str) : str[i][1] = "# Query: "}

\* the positions of str that hold a line of a finding block
BlockAt == {i \in 1..Len(str) : str[i][1] \notin {"score", "# Query: ", "sql block"}}

\* C20 as stated: under each format of the markdown family, with ReportType
\* equal to the format, the rendered report holds the score, after the query
\* header and before every finding block
C20_ScoreAfterHeader ==
    (Returned /\ format \in MarkdownFormats /\ ReportType = format) =>
        \E i \in ScoreAt :
            /\ \A h \in HeaderAt : h < i
            /\ \A b \in BlockAt : i < b

\* C20 amended: under a format of the markdown family, ReportType markdown or
\* html puts the score exactly once, as the second element of a report of
\* more than one element, which with a non-empty sql is right after the line
\* "# Query: id" and before the query text and every finding block; under
\* every other ReportType the rendered report holds no score
C20_ScoreByReportType ==
    (Returned /\ format \in MarkdownFormats) =>
        /\ (ReportType \in {"markdown", "html"} /\ Len(buf) > 1) =>
              /\ ScoreAt = {2}
              /\ str[2] = Score(score)
              /\ (sql # "" /\ DOMAIN Survivors # {}) =>
                    /\ HeaderAt = {1}
                    /\ \A b \in BlockAt : 2 < b
        /\ ReportType \notin {"markdown", "html"} => ScoreAt = {}

\* C20 witness: a markdown report with the header, the score behind its
\* first line and a finding block after it
C20_Witness ==
    /\ Returned
    /\ format = "markdown"
    /\ ReportType = "markdown"
    /\ sql # ""
    /\ ScoreAt = {2}
    /\ HeaderAt = {1}
    /\ BlockAt # {}

\* the entry r, compiled under (?i), matches s somewhere, be it with the
\* empty string
Matches(r, s) ==
    /\ ~Compile(r).err
    /\ \E pos \in 0..Len(s) : MatchEnd(Compile(r).prog, 1, s, pos) # -1

\* C14 as stated: InBlackList(sql) is true exactly when an entry of BlackList
\* equals sql or matches it as a case-insensitive regular expression, a match
\* of the empty string included; an entry that does not compile counts by
\* equality only
C14_BlackListIff ==
    call = "InBlackList" =>
        (in <=> \E i \in 1..Len(BlackList) :
                   BlackList[i] = sql \/ Matches(BlackList[i], sql))

\* C16 as stated: no write to the catalog is pending while another goroutine
\* is about to access it, and the catalog stays as it was initialized
C16_NoConcurrentWrite ==
    /\ ~Race
    /\ HeuristicRules = RuleCatalog

----------------------------------------------------------------------------
(* The lint format *)

\* the entries the lint format owes: CODE and summary of every surviving
\* finding that is neither OK nor an EXP.* finding
LintEntries ==
    {<<"lint", k, Survivors[k].Summary>> :
        k \in {c \in DOMAIN Survivors : c # OK /\ ~HasPrefix(c, EXP)}}

\* C21: in the lint format the lines that FormatSuggest renders are exactly
\* one entry CODE summary for each surviving finding whose code is not OK and
\* does not start with EXP, and no entry for OK or an EXP.* finding; under
\* ReportType lint these lines are the returned string
C21_LintEntries ==
    (Returned /\ format = "lint")
        => /\ Len(buf) = Cardinality(LintEntries)
           /\ {buf[i] : i \in 1..Len(buf)} = LintEntries
           /\ \A i \in 1..Len(buf) : buf[i][2] # OK /\ ~HasPrefix(buf[i][2], EXP)
           /\ ReportType = "lint" => str = buf

\* C21 witness: the lint format returned for an EXP.* finding and a finding
\* of another category, and rendered one entry
C21_Witness ==
    /\ Returned
    /\ format = "lint"
    /\ ReportType = "lint"
    /\ \E k \in DOMAIN Survivors : HasPrefix(k, EXP)
    /\ Len(str) = 1

----------------------------------------------------------------------------
(* NewQuery4Audit *)

\* the calls of NewQuery4Audit to the collaborator named fn
CallsTo(fn) == {i \in 1..Len(trace) : trace[i][1] = fn}

\* the Vitess parser was called and failed
VitessFailed == \E i \in CallsTo("sqlparser.Parse") : trace[i][3] # nil

\* the TiDB parser was called and failed
TiFailed == \E i \in CallsTo("ast.TiParse") : trace[i][5] # nil

\* C22: NewQuery4Audit returns a non-nil Query4Audit whose Query is the sql
\* it was handed, whatever the two parsers return, and it calls the TiDB
\* parser once, after the Vitess parser, also when the Vitess parser failed
C22_QueryKept ==
    call = "NewQuery4Audit"
        => /\ Len(audit) = 1
           /\ audit[1].Query = sql
           /\ Cardinality(CallsTo("sqlparser.Parse")) = 1
           /\ Cardinality(CallsTo("ast.TiParse")) = 1
           /\ \A i \in CallsTo("sqlparser.Parse"), j \in CallsTo("ast.TiParse") :
                 i < j /\ trace[j][2] = sql

\* C22 witness: both parsers failed, the TiDB parser after the Vitess parser,
\* and a Query4Audit with the sql came back
C22_Witness ==
    /\ call = "NewQuery4Audit"
    /\ VitessFailed
    /\ TiFailed
    /\ Len(audit) = 1
    /\ audit[1].Query = sql
    /\ sql # ""

\* C23: the error NewQuery4Audit returns is non-nil exactly when the TiDB
\* parser failed, and is then the error of that parser; a failure of the
\* Vitess parser is logged and not returned
C23_ErrorIsTiDB ==
    call = "NewQuery4Audit"
        => /\ err # nil <=> TiFailed
           /\ \A j \in CallsTo("ast.TiParse") : err = trace[j][5]
           /\ VitessFailed <=> CallsTo("Log.Warn") # {}

\* C23 witness: the Vitess parser failed alone, the failure was logged and
\* the returned error is nil
C23_Witness ==
    /\ call = "NewQuery4Audit"
    /\ VitessFailed
    /\ ~TiFailed
    /\ CallsTo("Log.Warn") # {}
    /\ err = nil

----------------------------------------------------------------------------
(* The order of the finding sets *)

\* the finding sets ss in every order
Permuted(ss) ==
    {[i \in 1..Len(ss) |-> ss[p[i]]] : p \in RangeOrders(1..Len(ss))}

\* the results (returned set and rendered string) FormatSuggest can return
\* for the finding sets ss and the other arguments of the state
ResultsOf(ss) ==
    LET suggest == Surviving(ss, IgnoreRules, HeuristicRules)
    IN  {[ret |-> out.suggest, str |-> Assemble(out.buf, out.score, ReportType)] :
            out \in {formatSwitch(sql, currentDB, format, suggest,
                                  ExplainSQLReportType, order) :
                        order \in SwitchOrders(format, suggest)}}

\* no code has different metadata in two of the finding sets ss
Agree(ss) ==
    \A i, j \in 1..Len(ss) : \A k \in DOMAIN ss[i] \cap DOMAIN ss[j] :
        ss[i][k] = ss[j][k]

\* the positions of the finding sets that hold the code k
Holders(k) == {i \in 1..Len(suggests) : k \in DOMAIN suggests[i]}

\* the last of the positions I
Last(I) == CHOOSE i \in I : \A j \in I : j <= i

\* C24 as stated: FormatSuggest can return the same results for the finding
\* sets in every order
C24_OrderIrrelevant ==
    Returned => \A ss \in Permuted(suggests) : ResultsOf(ss) = ResultsOf(suggests)

\* C24 amended: the results are the same for every order of finding sets
\* that agree on the metadata of the codes they share; a code that several
\* sets hold is returned with the metadata of the last set that holds it
C24_LastSetWins ==
    Returned =>
        /\ [ret |-> ret, str |-> str] \in ResultsOf(suggests)
        /\ \A ss \in Permuted(suggests) :
              Agree(suggests) => ResultsOf(ss) = ResultsOf(suggests)
        /\ \A k \in DOMAIN ret :
              Holders(k) # {} => ret[k] = suggests[Last(Holders(k))][k]

\* C24 witness: two finding sets hold the same code with different metadata,
\* FormatSuggest returned the metadata of the second, and the sets in the
\* other order give another result
C24_Witness ==
    /\ Returned
    /\ Len(suggests) = 2
    /\ \E k \in DOMAIN ret :
          /\ Holders(k) = {1, 2}
          /\ suggests[1][k] # suggests[2][k]
          /\ ret[k] = suggests[2][k]
    /\ ResultsOf(<<suggests[2], suggests[1]>>) # ResultsOf(suggests)

----------------------------------------------------------------------------
(* The score *)

\* the digit of a severity L0..L9; a severity of another form has none and
\* counts 0
SeverityDigit(sev) == IF ValidSeverity(sev) THEN DigitVal[sev[2]] ELSE 0

\* the sum of the severity digits of the findings of m under the keys K
RECURSIVE SeveritySum(_, _)
SeveritySum(m, K) ==
    IF K = {} THEN 0
    ELSE LET k == CHOOSE c \in K : TRUE
         IN  SeverityDigit(m[k].Severity) + SeveritySum(m, K \ {k})

\* an ERR.* finding with Content is among the survivors
ErrWithContent ==
    \E k \in DOMAIN Survivors : HasPrefix(k, ERR) /\ Survivors[k].Content # ""

\* C25: in the json format, without an ERR.* finding with Content among the
\* survivors, Score is max(0, 100 - 5 * the sum of the severity digits of all
\* surviving findings), whatever the order of the range over the findings
C25_JSONScore ==
    (Returned /\ format = "json" /\ ~ErrWithContent)
        => LET raw == 100 - 5 * SeveritySum(Survivors, DOMAIN Survivors)
           IN  js.Score = IF raw < 0 THEN 0 ELSE raw

\* C25 witness: the json format returned for three findings whose severity
\* digits sum to more than 20, and Score is 0
C25_Witness ==
    /\ Returned
    /\ format = "json"
    /\ ~ErrWithContent
    /\ Cardinality(DOMAIN Survivors) = 3
    /\ SeveritySum(Survivors, DOMAIN Survivors) > 20
    /\ js.Score = 0

\* C26 as stated: for the same surviving finding set the markdown formats
\* compute the score that the json format computes as Score, for every
\* order of the range of formatJSON
C26_SameScore ==
    (Returned /\ format \in MarkdownFormats)
        => \A order \in RangeOrders(DOMAIN Survivors) :
              score = jsonScore(Survivors, order)

----------------------------------------------------------------------------
(* The blocks of the markdown formats *)

\* the block of a code: 1 MySQL execute failed, 2 Explain, 3 Profiling,
\* 4 Trace, 5 Index, 6 Heuristic
BlockOf(k) ==
    CASE HasPrefix(k, ERR) -> 1
      [] HasPrefix(k, EXP) -> 2
      [] HasPrefix(k, PRO) -> 3
      [] HasPrefix(k, TRA) -> 4
      [] HasPrefix(k, IDX) -> 5
      [] OTHER             -> 6

\* the title lines of the blocks that have one
BlockTitle(b) ==
    CASE b = 1 -> "## MySQL execute failed"
      [] b = 3 -> "## Profiling"
      [] b = 4 -> "## Trace"
      [] OTHER -> ""

\* the line at position i of buf has the tag t
TagAt(i, t) == i \in 1..Len(buf) /\ buf[i][1] = t

\* the positions of buf where the rendering of the surviving finding k opens:
\* a Content line of its own in the blocks with a title, the heading with the
\* summary in the other blocks (followed by the Content in the Explain block
\* and by the Item line in the Index and the Heuristic block)
RenderedAt(k) ==
    LET r == Survivors[k]
    IN  CASE BlockOf(k) \in {1, 3, 4} ->
                 {i \in 1..Len(buf) :
                     /\ TagAt(i, "Content") /\ buf[i][2] = r.Content
                     /\ ~TagAt(i - 1, "## ") /\ ~TagAt(i - 1, "### ")}
          [] BlockOf(k) = 2 ->
                 {i \in 1..Len(buf) :
                     /\ TagAt(i, IF k = EXP000 /\ r.Item # <<>> THEN "## " ELSE "### ")
                     /\ TagAt(i + 1, "Content")
                     /\ buf[i][2] = r.Summary /\ buf[i + 1][2] = r.Content}
          [] BlockOf(k) = 5 ->
                 {i \in 1..Len(buf) :
                     /\ TagAt(i, "## ")
                     /\ TagAt(i + 1, "* **Item:** ") /\ buf[i + 1][2] = k
                     /\ buf[i][2] = MarkdownEscape(r.Summary)}
          [] OTHER ->
                 {i \in 1..Len(buf) :
                     /\ TagAt(i, "##") /\ buf[i][2] = r.Summary
                     /\ IF k = OK THEN ~TagAt(i + 1, "* **Item:** ")
                        ELSE TagAt(i + 1, "* **Item:** ") /\ buf[i + 1][2] = k}

\* the survivors that the markdown formats render
Rendered == DOMAIN Survivors \ Placeholders

----------------------------------------------------------------------------
(* The arrays of the json format *)

\* the positions of the array a that hold the surviving finding k
InArray(a, k) == {i \in 1..Len(a) : a[i] = Survivors[k]}

\* the array the json format owes the code k
ArrayOf(k) ==
    CASE HasPrefix(k, EXP) -> "Explain"
      [] HasPrefix(k, IDX) -> "IndexRules"
      [] OTHER             -> "HeuristicRules"

\* C28: in the json format every surviving finding except an ERR.* with
\* empty Content stands exactly once in exactly one of the three arrays:
\* EXP.* in Explain, IDX.* in IndexRules, every other code (OK, ERR.* with
\* Content, PRO.*, TRA.* included) in HeuristicRules; the arrays hold nothing
\* else
C28_ArraysPartition ==
    (Returned /\ format = "json")
        => LET arrays == [Explain        |-> js.Explain,
                          IndexRules     |-> js.IndexRules,
                          HeuristicRules |-> js.HeuristicRules]
           IN  /\ \A k \in DOMAIN Survivors \ Placeholders : \A n \in DOMAIN arrays :
                     Cardinality(InArray(arrays[n], k)) = IF n = ArrayOf(k) THEN 1 ELSE 0
               /\ \A k \in Placeholders : \A n \in DOMAIN arrays :
                     InArray(arrays[n], k) = {}
               /\ Len(js.Explain) + Len(js.IndexRules) + Len(js.HeuristicRules)
                     = Cardinality(DOMAIN Survivors \ Placeholders)

\* C28 witness: the json format returned for an EXP.* finding and a PRO.*
\* finding, the first in Explain and the second in HeuristicRules
C28_Witness ==
    /\ Returned
    /\ format = "json"
    /\ \E k1, k2 \in DOMAIN Survivors :
          /\ HasPrefix(k1, EXP) /\ InArray(js.Explain, k1) # {}
          /\ HasPrefix(k2, PRO) /\ InArray(js.HeuristicRules, k2) # {}

----------------------------------------------------------------------------
(* The inputs of FormatSuggest *)

\* C29: a call of FormatSuggest leaves every finding set it was handed, the
\* Rule Catalog and the ignore list as they were; what it deletes, it deletes
\* from the merged map it built
C29_InputsUntouched ==
    [][call' = "FormatSuggest"
          => /\ suggests' = suggests
             /\ HeuristicRules' = HeuristicRules
             /\ IgnoreRules' = IgnoreRules]_vars

\* C29 witness: FormatSuggest returned a set without a finding that the only
\* finding set it was handed still holds
C29_Witness ==
    /\ Returned
    /\ Len(suggests) = 1
    /\ \E k \in DOMAIN suggests[1] : k \notin DOMAIN ret
    /\ HeuristicRules = RuleCatalog

----------------------------------------------------------------------------
(* The report under ReportType markdown and html *)

\* C30 as stated: under ReportType markdown or html FormatSuggest returns a
\* non-empty string whenever a finding survives, for every sql and format
C30_ReportNotEmpty ==
    (Returned /\ ReportType \in {"markdown", "html"} /\ DOMAIN Survivors # {})
        => str # <<>>

====
